---- MODULE Spec2Model ----
(***************************************************************************)
(* A state-machine model of the PSU link shortener front end.              *)
(*                                                                         *)
(*   Link store      cln/app/stores/links.ts        (specification Spec)   *)
(*                                                                         *)
(* Every component has its own variables and its own specification; the    *)
(* specification of one component leaves the variables of the others       *)
(* unchanged.                                                              *)
(***************************************************************************)
EXTENDS Integers, Sequences, FiniteSets, TLC

(***************************************************************************)
(* Bounds of the model                                                     *)
(***************************************************************************)
\* longest list of links the server returns / the cache is let to grow to
MaxLinks == 2

(***************************************************************************)
(* Link store: values                                                      *)
(***************************************************************************)
LinkIds == {1, 2}
\* the content of a record as the server holds it: a new version per change
Vers == {0, 1}
ShortCodeOf(id) == IF id = 1 THEN "aaa" ELSE "bbb"
ShortCodes == {ShortCodeOf(i) : i \in LinkIds}
\* LinkEntry: the id, the short code, and everything else folded into ver
LinkEntry == {[id |-> i, shortCode |-> ShortCodeOf(i), ver |-> v] : i \in LinkIds, v \in Vers}
\* currentLink: LinkEntry | null; null has no id, so null?.id === id is false
NullLink == [id |-> 0, shortCode |-> "", ver |-> 0]
\* error: string | null
NoError == "<null>"

\* the page sizes and pages the dashboard's grid asks for
PageSizes == {10}
Pages == {0, 1}
\* the requests the concurrent scenarios overlap: a first and a second
Slots == {1, 2}
\* the object the dashboard passes: { max, offset } and nothing else
ExplicitParams == {[max |-> s, offset |-> p * s] : s \in PageSizes, p \in Pages}
\* the store's initial pagination
InitialPagination == [max |-> 50, offset |-> 0, sort |-> "createdAt", order |-> "DESC"]

\* { ...a, ...b }: b's fields win
Spread(a, b) == b @@ a

Ops == {"createLink", "getUserLinks", "getLinkById", "updateLink", "deleteLink",
        "transferOwnership", "getLinkStats", "accessLink", "getRedirectUrl",
        "searchAllLinks", "disableLinkByShortCode", "viewLinkByShortCode"}

\* the fallback string of each operation's catch block
Fallback(op) ==
  CASE op = "createLink" -> "Failed to create link"
    [] op = "getUserLinks" -> "Failed to fetch links"
    [] op = "getLinkById" -> "Failed to fetch link"
    [] op = "updateLink" -> "Failed to update link"
    [] op = "deleteLink" -> "Failed to delete link"
    [] op = "transferOwnership" -> "Failed to transfer ownership"
    [] op = "getLinkStats" -> "Failed to fetch stats"
    [] op = "accessLink" -> "Link not found"
    [] op = "getRedirectUrl" -> "Link not found"
    [] op = "searchAllLinks" -> "Failed to search links"
    [] op = "disableLinkByShortCode" -> "Failed to disable link"
    [] op = "viewLinkByShortCode" -> "Failed to view link"

\* what error.response?.data?.message can be: absent, empty, or a text
NoMessage == "<undefined>"
ServerMessages == {NoMessage, "", "Forbidden"}
\* error.response?.data?.message || fallback
ErrorMessageUnlessUndefined(msg, op) == IF msg = NoMessage THEN Fallback(op) ELSE msg
ErrorMessage(msg, op) == IF msg = NoMessage \/ msg = "" THEN Fallback(op) ELSE msg

(***************************************************************************)
(* Link store: state                                                       *)
(***************************************************************************)
VARIABLES
  links,        \* LinkState.links
  currentLink,  \* LinkState.currentLink
  isLoading,    \* LinkState.isLoading
  error,        \* LinkState.error
  totalCount,   \* LinkState.totalCount
  pagination,   \* LinkState.pagination
  storage,      \* sessionStorage['link-storage'].state, as persist writes it
  reqs,         \* the HTTP requests awaited, in the order they were started
  ev            \* the last thing that happened to the store (history)

linkVars == <<links, currentLink, isLoading, error, totalCount, pagination, storage, reqs, ev>>

\* the data fields of the store, as one record
LinkState ==
  [links |-> links, currentLink |-> currentLink, isLoading |-> isLoading,
   error |-> error, totalCount |-> totalCount, pagination |-> pagination]

\* persist's partialize option: what of the state goes to sessionStorage
PartializeEverything(state) == state
Partialize(state) == [pagination |-> state.pagination]

\* persist writes the partialized state after every set()
Persisted == storage' = Partialize(LinkState')

NoReq == [op |-> "none"]
\* phase: init, start, ok, fail, ui, reload; req: the request answered; rec: the
\* record a response carried; data: the list a response carried; msg: the
\* message a failure carried; thrown: the error the operation's promise
\* rejected with (an error is told by the message it carries), NoThrow when
\* it did not reject
NoThrow == "<none>"
Event(phase, req, rec, msg) ==
  [phase |-> phase, req |-> req, rec |-> rec, data |-> <<>>, msg |-> msg,
   thrown |-> NoThrow]
\* catch (error) { set(...); throw error }
Failure(req, msg) == [Event("fail", req, NullLink, msg) EXCEPT !.thrown = msg]

\* the lists a GET /links response can carry: no id twice, at most MaxLinks long
RECURSIVE SeqsUpTo(_, _)
SeqsUpTo(S, n) ==
  IF n = 0 THEN {<<>>}
  ELSE LET shorter == SeqsUpTo(S, n - 1)
       IN shorter \cup {Append(s, x) : s \in {t \in shorter : Len(t) = n - 1}, x \in S}
DistinctIds(s) == \A i, j \in 1..Len(s) : i # j => s[i].id # s[j].id
ListResponses == {s \in SeqsUpTo(LinkEntry, MaxLinks) : DistinctIds(s)}

\* links.map(link => link.id === id ? updatedLink : link)
MapReplaceFirstOnly(s, id, updatedLink) ==
  LET hits == {i \in 1..Len(s) : s[i].id = id}
  IN [i \in 1..Len(s) |->
        IF i \in hits /\ (\A j \in hits : i <= j) THEN updatedLink ELSE s[i]]
MapReplaceById(s, id, updatedLink) ==
  [i \in 1..Len(s) |-> IF s[i].id = id THEN updatedLink ELSE s[i]]
\* links.map(link => link.shortCode === shortCode ? updatedLink : link)
MapDisableInPlace(s, shortCode, updatedLink) ==
  [i \in 1..Len(s) |->
     IF s[i].shortCode = shortCode THEN [s[i] EXCEPT !.ver = 1] ELSE s[i]]
MapReplaceByShortCode(s, shortCode, updatedLink) ==
  [i \in 1..Len(s) |-> IF s[i].shortCode = shortCode THEN updatedLink ELSE s[i]]
\* links.filter(link => link.id !== id)
FilterRemoveFirstOnly(s, id) ==
  LET hits == {i \in 1..Len(s) : s[i].id = id}
  IN IF hits = {} THEN s
     ELSE LET k == CHOOSE i \in hits : \A j \in hits : i <= j
          IN SubSeq(s, 1, k - 1) \o SubSeq(s, k + 1, Len(s))
FilterOutId(s, id) == SelectSeq(s, LAMBDA link : link.id # id)

\* the requests still awaited once the i-th has resolved
Remove(i) == [j \in 1..(Len(reqs) - 1) |-> IF j < i THEN reqs[j] ELSE reqs[j + 1]]
\* the same, and the list requests started before the i-th are marked
\* overtaken (history: the answer to a later list request was applied first)
RemoveOvertaking(i) ==
  [j \in 1..(Len(reqs) - 1) |->
     IF j < i
     THEN IF reqs[j].op = "getUserLinks" THEN [reqs[j] EXCEPT !.overtaken = TRUE] ELSE reqs[j]
     ELSE reqs[j + 1]]

LinkInit ==
  /\ links = <<>>
  /\ currentLink = NullLink
  /\ isLoading = FALSE
  /\ error = NoError
  /\ totalCount = 0
  /\ pagination = InitialPagination
  /\ storage = Partialize(LinkState)
  /\ reqs = <<>>
  /\ ev = Event("init", NoReq, NullLink, NoMessage)

(***************************************************************************)
(* Link store: the operations.  Each operation is a call (set isLoading,   *)
(* clear error, send the request), then, when the response arrives, its    *)
(* success continuation or its catch block.                                *)
(***************************************************************************)
\* set({ isLoading: true, error: null }) and the HTTP request sent
Begin(req) ==
  /\ Len(reqs) < Cardinality(Slots)
  /\ isLoading' = TRUE
  /\ error' = NoError
  /\ reqs' = Append(reqs, req)
  /\ ev' = Event("start", [op |-> req.op], NullLink, NoMessage)
  /\ UNCHANGED <<links, currentLink, totalCount, pagination>>
  /\ Persisted

\* the catch block every operation has: the message the server sent, or the
\* operation's fallback; isLoading back to false; the error rethrown
CatchClearsLinks(i, msg) ==
  /\ i \in 1..Len(reqs)
  /\ isLoading' = FALSE
  /\ error' = ErrorMessage(msg, reqs[i].op)
  /\ links' = <<>>
  /\ reqs' = Remove(i)
  /\ ev' = Failure(reqs[i], msg)
  /\ UNCHANGED <<currentLink, totalCount, pagination>>
  /\ Persisted
Catch(i, msg) ==
  /\ i \in 1..Len(reqs)
  /\ isLoading' = FALSE
  /\ error' = ErrorMessage(msg, reqs[i].op)
  /\ reqs' = Remove(i)
  /\ ev' = Failure(reqs[i], msg)
  /\ UNCHANGED <<links, currentLink, totalCount, pagination>>
  /\ Persisted

\* the i-th awaited request is one of operation op
Awaits(i, op) == i \in 1..Len(reqs) /\ reqs[i].op = op

createLink == Begin([op |-> "createLink", overtaken |-> FALSE])

\* links: [newLink, ...state.links]
LinksAfterCreateAppended(s, newLink) == s \o <<newLink>>
LinksAfterCreate(s, newLink) == <<newLink>> \o s

createLinkOk(i, newLink) ==
  /\ Awaits(i, "createLink")
  /\ Len(links) < MaxLinks
  /\ links' = LinksAfterCreate(links, newLink)
  /\ isLoading' = FALSE
  /\ reqs' = Remove(i)
  /\ ev' = Event("ok", reqs[i], newLink, NoMessage)
  /\ UNCHANGED <<currentLink, error, totalCount, pagination>>
  /\ Persisted

\* const queryParams = params || get().pagination, read when the call is made
getUserLinks(params) ==
  Begin([op |-> "getUserLinks", queryParams |-> params, overtaken |-> FALSE])
getUserLinksNoParams ==
  Begin([op |-> "getUserLinks", queryParams |-> pagination, overtaken |-> FALSE])

\* set({ links: response.data, ..., pagination: queryParams }): whatever the
\* store holds by then, and whichever request was started last
LinksUnlessOvertaken(req, data) == IF req.overtaken THEN links ELSE data
LinksFromResponse(req, data) == data
PaginationFromRequest(req) == req.queryParams

getUserLinksOk(i, data) ==
  /\ Awaits(i, "getUserLinks")
  /\ links' = LinksFromResponse(reqs[i], data)
  /\ isLoading' = FALSE
  /\ pagination' = PaginationFromRequest(reqs[i])
  /\ reqs' = RemoveOvertaking(i)
  /\ ev' = [Event("ok", reqs[i], NullLink, NoMessage) EXCEPT !.data = data]
  /\ UNCHANGED <<currentLink, error, totalCount>>
  /\ Persisted

getLinkById(id) == Begin([op |-> "getLinkById", id |-> id, overtaken |-> FALSE])

getLinkByIdOk(i, link) ==
  /\ Awaits(i, "getLinkById")
  /\ link.id = reqs[i].id
  /\ currentLink' = link
  /\ isLoading' = FALSE
  /\ reqs' = Remove(i)
  /\ ev' = Event("ok", reqs[i], link, NoMessage)
  /\ UNCHANGED <<links, error, totalCount, pagination>>
  /\ Persisted

updateLink(id) == Begin([op |-> "updateLink", id |-> id, overtaken |-> FALSE])

\* state.currentLink?.id === id ? updatedLink : state.currentLink
CurrentLinkAfterUpdate(cur, id, updatedLink) == IF cur.id = id THEN updatedLink ELSE cur

updateLinkOk(i, updatedLink) ==
  /\ Awaits(i, "updateLink")
  /\ updatedLink.id = reqs[i].id
  /\ links' = MapReplaceById(links, reqs[i].id, updatedLink)
  /\ currentLink' = CurrentLinkAfterUpdate(currentLink, reqs[i].id, updatedLink)
  /\ isLoading' = FALSE
  /\ reqs' = Remove(i)
  /\ ev' = Event("ok", reqs[i], updatedLink, NoMessage)
  /\ UNCHANGED <<error, totalCount, pagination>>
  /\ Persisted

deleteLink(id) == Begin([op |-> "deleteLink", id |-> id, overtaken |-> FALSE])

\* state.currentLink?.id === id ? null : state.currentLink
CurrentLinkAfterDelete(cur, id) == IF cur.id = id THEN NullLink ELSE cur

deleteLinkOk(i) ==
  /\ Awaits(i, "deleteLink")
  /\ links' = FilterOutId(links, reqs[i].id)
  /\ currentLink' = CurrentLinkAfterDelete(currentLink, reqs[i].id)
  /\ isLoading' = FALSE
  /\ reqs' = Remove(i)
  /\ ev' = Event("ok", reqs[i], NullLink, NoMessage)
  /\ UNCHANGED <<error, totalCount, pagination>>
  /\ Persisted

transferOwnership(id) == Begin([op |-> "transferOwnership", id |-> id, overtaken |-> FALSE])

transferOwnershipOk(i, updatedLink) ==
  /\ Awaits(i, "transferOwnership")
  /\ updatedLink.id = reqs[i].id
  /\ links' = MapReplaceById(links, reqs[i].id, updatedLink)
  /\ currentLink' = CurrentLinkAfterUpdate(currentLink, reqs[i].id, updatedLink)
  /\ isLoading' = FALSE
  /\ reqs' = Remove(i)
  /\ ev' = Event("ok", reqs[i], updatedLink, NoMessage)
  /\ UNCHANGED <<error, totalCount, pagination>>
  /\ Persisted

\* getLinkStats, accessLink, getRedirectUrl, searchAllLinks and
\* viewLinkByShortCode hand the response to the caller and keep nothing of it
ReadOnlyOps == {"getLinkStats", "accessLink", "getRedirectUrl", "searchAllLinks",
                "viewLinkByShortCode"}
readOnlyCall(op) == Begin([op |-> op, overtaken |-> FALSE])

readOnlyOk(i) ==
  /\ i \in 1..Len(reqs)
  /\ reqs[i].op \in ReadOnlyOps
  /\ isLoading' = FALSE
  /\ reqs' = Remove(i)
  /\ ev' = Event("ok", reqs[i], NullLink, NoMessage)
  /\ UNCHANGED <<links, currentLink, error, totalCount, pagination>>
  /\ Persisted

disableLinkByShortCode(shortCode) ==
  Begin([op |-> "disableLinkByShortCode", shortCode |-> shortCode, overtaken |-> FALSE])

disableLinkByShortCodeOk(i, updatedLink) ==
  /\ Awaits(i, "disableLinkByShortCode")
  /\ updatedLink.shortCode = reqs[i].shortCode
  /\ links' = MapReplaceByShortCode(links, reqs[i].shortCode, updatedLink)
  /\ isLoading' = FALSE
  /\ reqs' = Remove(i)
  /\ ev' = Event("ok", reqs[i], updatedLink, NoMessage)
  /\ UNCHANGED <<currentLink, error, totalCount, pagination>>
  /\ Persisted

setCurrentLink(link) ==
  /\ currentLink' = link
  /\ ev' = Event("ui", [op |-> "setCurrentLink"], link, NoMessage)
  /\ UNCHANGED <<links, isLoading, error, totalCount, pagination, reqs>>
  /\ Persisted

setPagination(params) ==
  /\ pagination' = Spread(pagination, params)
  /\ ev' = Event("ui", [op |-> "setPagination"], NullLink, NoMessage)
  /\ UNCHANGED <<links, currentLink, isLoading, error, totalCount, reqs>>
  /\ Persisted

clearError ==
  /\ error' = NoError
  /\ ev' = Event("ui", [op |-> "clearError"], NullLink, NoMessage)
  /\ UNCHANGED <<links, currentLink, isLoading, totalCount, pagination, reqs>>
  /\ Persisted

reset ==
  /\ links' = <<>>
  /\ currentLink' = NullLink
  /\ isLoading' = FALSE
  /\ error' = NoError
  /\ totalCount' = 0
  /\ pagination' = InitialPagination
  /\ ev' = Event("ui", [op |-> "reset"], NullLink, NoMessage)
  /\ UNCHANGED reqs
  /\ Persisted

\* The page is loaded again in the same tab: the store is created anew and
\* persist merges what sessionStorage holds over the initial state.  The
\* requests of the page that went away are never answered.
Rehydrate ==
  /\ links' = <<>>
  /\ currentLink' = NullLink
  /\ isLoading' = FALSE
  /\ error' = NoError
  /\ totalCount' = 0
  /\ pagination' = Spread(LinkState, storage).pagination
  /\ reqs' = <<>>
  /\ ev' = Event("reload", NoReq, NullLink, NoMessage)
  /\ Persisted

(***************************************************************************)
(* Spec: the list and its edits (create, list, update, delete) with        *)
(* overlapping requests, and the page loaded again.                        *)
(***************************************************************************)
LinkNext ==
  \/ createLink
  \/ \E i \in Slots, newLink \in LinkEntry : createLinkOk(i, newLink)
  \/ \E params \in ExplicitParams : getUserLinks(params)
  \/ getUserLinksNoParams
  \/ \E i \in Slots, data \in ListResponses : getUserLinksOk(i, data)
  \/ \E id \in LinkIds : updateLink(id)
  \/ \E i \in Slots, updatedLink \in LinkEntry : updateLinkOk(i, updatedLink)
  \/ \E id \in LinkIds : deleteLink(id)
  \/ \E i \in Slots : deleteLinkOk(i)
  \/ \E i \in Slots : Catch(i, "Forbidden")
  \/ \E link \in LinkEntry \cup {NullLink} : setCurrentLink(link)
  \/ Rehydrate

(***************************************************************************)
(* FailSpec: every operation of the store, each with its success and its   *)
(* failure, and the synchronous setters, over one link.                    *)
(***************************************************************************)
OneLink == [id |-> 1, shortCode |-> ShortCodeOf(1), ver |-> 0]
OnePage == [max |-> 10, offset |-> 10]

FailNext ==
  \/ createLink
  \/ \E i \in Slots : createLinkOk(i, OneLink)
  \/ getUserLinks(OnePage)
  \/ getUserLinksNoParams
  \/ \E i \in Slots, data \in {<<>>, <<OneLink>>} : getUserLinksOk(i, data)
  \/ getLinkById(1)
  \/ \E i \in Slots : getLinkByIdOk(i, OneLink)
  \/ updateLink(1)
  \/ \E i \in Slots : updateLinkOk(i, OneLink)
  \/ deleteLink(1)
  \/ \E i \in Slots : deleteLinkOk(i)
  \/ transferOwnership(1)
  \/ \E i \in Slots : transferOwnershipOk(i, OneLink)
  \/ \E op \in ReadOnlyOps : readOnlyCall(op)
  \/ \E i \in Slots : readOnlyOk(i)
  \/ disableLinkByShortCode(ShortCodeOf(1))
  \/ \E i \in Slots : disableLinkByShortCodeOk(i, OneLink)
  \/ \E i \in Slots, msg \in ServerMessages : Catch(i, msg)
  \/ setCurrentLink(OneLink)
  \/ setCurrentLink(NullLink)
  \/ setPagination(OnePage)
  \/ clearError
  \/ reset

(***************************************************************************)
(* RecordSpec: every operation that puts a record into links or            *)
(* currentLink, answered with either version of either link.               *)
(***************************************************************************)
RecordNext ==
  \/ createLink
  \/ \E i \in Slots, newLink \in LinkEntry : createLinkOk(i, newLink)
  \/ getUserLinksNoParams
  \/ \E i \in Slots, data \in ListResponses : getUserLinksOk(i, data)
  \/ \E id \in LinkIds : getLinkById(id)
  \/ \E i \in Slots, link \in LinkEntry : getLinkByIdOk(i, link)
  \/ \E id \in LinkIds : updateLink(id)
  \/ \E i \in Slots, updatedLink \in LinkEntry : updateLinkOk(i, updatedLink)
  \/ \E id \in LinkIds : deleteLink(id)
  \/ \E i \in Slots : deleteLinkOk(i)
  \/ \E id \in LinkIds : transferOwnership(id)
  \/ \E i \in Slots, updatedLink \in LinkEntry : transferOwnershipOk(i, updatedLink)
  \/ \E shortCode \in ShortCodes : disableLinkByShortCode(shortCode)
  \/ \E i \in Slots, updatedLink \in LinkEntry : disableLinkByShortCodeOk(i, updatedLink)
  \/ \E i \in Slots : Catch(i, "Forbidden")
  \/ \E link \in LinkEntry \cup {NullLink} : setCurrentLink(link)
  \/ reset

(***************************************************************************)
(* RaceSpec: createLink and getUserLinks against a server that gives every *)
(* link its own id.  A request is handled by the server at one moment and  *)
(* its response is delivered at a later one; the responses of two requests *)
(* in flight can arrive in either order.                                   *)
(***************************************************************************)
VARIABLES
  serverLinks,  \* the links the server holds, the newest first (sort createdAt DESC)
  answers       \* for each awaited request, the response on its way, if any

serverVars == <<serverLinks, answers>>

NoAnswer == [rec |-> NullLink, data |-> <<>>, sent |-> FALSE]
ServerInit ==
  /\ serverLinks = <<>>
  /\ answers = <<>>

RemoveAnswer(i) ==
  [j \in 1..(Len(answers) - 1) |-> IF j < i THEN answers[j] ELSE answers[j + 1]]

raceCreateLink ==
  /\ createLink
  /\ answers' = Append(answers, NoAnswer)
  /\ UNCHANGED serverLinks

raceGetUserLinks ==
  /\ getUserLinksNoParams
  /\ answers' = Append(answers, NoAnswer)
  /\ UNCHANGED serverLinks

\* POST /links: the server stores the link under the next free id
ServerCreates(i) ==
  /\ Awaits(i, "createLink")
  /\ ~answers[i].sent
  /\ Len(serverLinks) < MaxLinks
  /\ LET newLink == [id |-> Len(serverLinks) + 1,
                     shortCode |-> ShortCodeOf(Len(serverLinks) + 1), ver |-> 0]
     IN /\ serverLinks' = <<newLink>> \o serverLinks
        /\ answers' = [answers EXCEPT ![i] = [rec |-> newLink, data |-> <<>>, sent |-> TRUE]]
  /\ UNCHANGED linkVars

\* GET /links: the server answers with the links it holds
ServerLists(i) ==
  /\ Awaits(i, "getUserLinks")
  /\ ~answers[i].sent
  /\ answers' = [answers EXCEPT ![i] = [rec |-> NullLink, data |-> serverLinks, sent |-> TRUE]]
  /\ UNCHANGED <<serverLinks, linkVars>>

raceCreateLinkOk(i) ==
  /\ i \in 1..Len(answers)
  /\ answers[i].sent
  /\ createLinkOk(i, answers[i].rec)
  /\ answers' = RemoveAnswer(i)
  /\ UNCHANGED serverLinks

raceGetUserLinksOk(i) ==
  /\ i \in 1..Len(answers)
  /\ answers[i].sent
  /\ getUserLinksOk(i, answers[i].data)
  /\ answers' = RemoveAnswer(i)
  /\ UNCHANGED serverLinks

\* the request fails before the server has handled it
raceFails(i) ==
  /\ i \in 1..Len(answers)
  /\ ~answers[i].sent
  /\ Catch(i, "Forbidden")
  /\ answers' = RemoveAnswer(i)
  /\ UNCHANGED serverLinks

RaceNext ==
  \/ raceCreateLink
  \/ raceGetUserLinks
  \/ \E i \in Slots : ServerCreates(i)
  \/ \E i \in Slots : ServerLists(i)
  \/ \E i \in Slots : raceCreateLinkOk(i)
  \/ \E i \in Slots : raceGetUserLinksOk(i)
  \/ \E i \in Slots : raceFails(i)

(***************************************************************************)
(* Toast store (cln/app/stores/toast.ts)                                   *)
(***************************************************************************)
\* most toasts shown in one run (each starts one timer)
MaxToasts == 3

Messages == {"link saved", "link not saved"}
Severities == {"success", "info", "warning", "error"}
DefaultDuration == 5000
Durations == {DefaultDuration, 3000}
DefaultPosition == "bottom-right"
Positions == {DefaultPosition, "top-center"}
\* timeoutId: NodeJS.Timeout | null; the handles setTimeout returns start at 1
NoTimeout == 0

VARIABLES
  open,        \* ToastState.open
  message,     \* ToastState.message
  severity,    \* ToastState.severity
  duration,    \* ToastState.duration
  position,    \* ToastState.position
  timeoutId,   \* ToastState.timeoutId
  timers,      \* the timers pending in the event loop, each with the message and
               \* duration of the showToast that started it
  timerSeq,    \* the handles setTimeout has given out so far
  closedBy,    \* history: the timer whose callback ran last (or NoTimer), and
               \* whether it was the timer of the toast on display
  lastCall     \* history: the arguments of the last showToast call (or NoCall)

toastVars == <<open, message, severity, duration, position, timeoutId, timers, timerSeq, closedBy,
               lastCall>>

NoTimer == [id |-> NoTimeout, message |-> "", duration |-> 0, current |-> TRUE]

NoCall == [message |-> "", severity |-> "", duration |-> 0, position |-> ""]
Call(m, sev, dur, pos) == [message |-> m, severity |-> sev, duration |-> dur, position |-> pos]

ToastInit ==
  /\ lastCall = NoCall
  /\ open = FALSE
  /\ message = ""
  /\ severity = "info"
  /\ duration = DefaultDuration
  /\ position = DefaultPosition
  /\ timeoutId = NoTimeout
  /\ timers = {}
  /\ timerSeq = 0
  /\ closedBy = NoTimer

\* if (state.timeoutId) clearTimeout(state.timeoutId)
ClearTimeoutForgotten(pending, id) == pending
ClearTimeout(pending, id) == {t \in pending : t.id # id}

showToastUnlessOpen(m, sev, dur, pos) ==
  /\ timerSeq < MaxToasts
  /\ LET id == timerSeq + 1
     IN /\ timers' = ClearTimeout(timers, timeoutId)
                       \cup {[id |-> id, message |-> m, duration |-> dur]}
        /\ timerSeq' = id
        /\ timeoutId' = id
  /\ open' = TRUE
  /\ message' = (IF open THEN message ELSE m)
  /\ severity' = sev
  /\ duration' = dur
  /\ position' = pos
  /\ lastCall' = Call(m, sev, dur, pos)
  /\ UNCHANGED closedBy
showToast(m, sev, dur, pos) ==
  /\ timerSeq < MaxToasts
  /\ LET id == timerSeq + 1
     IN /\ timers' = ClearTimeout(timers, timeoutId)
                       \cup {[id |-> id, message |-> m, duration |-> dur]}
        /\ timerSeq' = id
        /\ timeoutId' = id
  /\ open' = TRUE
  /\ message' = m
  /\ severity' = sev
  /\ duration' = dur
  /\ position' = pos
  /\ lastCall' = Call(m, sev, dur, pos)
  /\ UNCHANGED closedBy

hideToastClearsMessage ==
  /\ timers' = ClearTimeout(timers, timeoutId)
  /\ open' = FALSE
  /\ timeoutId' = NoTimeout
  /\ message' = ""
  /\ UNCHANGED <<severity, duration, position, timerSeq, closedBy, lastCall>>
hideToast ==
  /\ timers' = ClearTimeout(timers, timeoutId)
  /\ open' = FALSE
  /\ timeoutId' = NoTimeout
  /\ UNCHANGED <<message, severity, duration, position, timerSeq, closedBy, lastCall>>

showSuccess(m, dur) == showToast(m, "success", dur, DefaultPosition)
showError(m, dur) == showToast(m, "error", dur, DefaultPosition)
showWarning(m, dur) == showToast(m, "warning", dur, DefaultPosition)
showInfo(m, dur) == showToast(m, "info", dur, DefaultPosition)

\* the callback of a pending timer runs: set({ open: false, timeoutId: null })
TimerFiresKeepsOpen(t) ==
  /\ t \in timers
  /\ timers' = timers \ {t}
  /\ open' = open
  /\ timeoutId' = NoTimeout
  /\ closedBy' = [id |-> t.id, message |-> t.message, duration |-> t.duration,
                   current |-> (open /\ t.id = timeoutId /\ t.message = message)]
  /\ UNCHANGED <<message, severity, duration, position, timerSeq, lastCall>>
TimerFires(t) ==
  /\ t \in timers
  /\ timers' = timers \ {t}
  /\ open' = FALSE
  /\ timeoutId' = NoTimeout
  /\ closedBy' = [id |-> t.id, message |-> t.message, duration |-> t.duration,
                   current |-> (open /\ t.id = timeoutId /\ t.message = message)]
  /\ UNCHANGED <<message, severity, duration, position, timerSeq, lastCall>>

ToastNext ==
  \/ \E m \in Messages, sev \in Severities, dur \in Durations, pos \in Positions :
       showToast(m, sev, dur, pos)
  \/ hideToast
  \/ \E m \in Messages, dur \in Durations : showSuccess(m, dur)
  \/ \E m \in Messages, dur \in Durations : showError(m, dur)
  \/ \E m \in Messages, dur \in Durations : showWarning(m, dur)
  \/ \E m \in Messages, dur \in Durations : showInfo(m, dur)
  \/ \E t \in timers : TimerFires(t)

(***************************************************************************)
(* Auth gate (cln/app/components/ProtectedRoute.tsx).  The auth store      *)
(* (stores/auth) is not part of the sources at hand: what getProfile, the  *)
(* start-up session check, login and logout do to it is modelled as any    *)
(* of the outcomes a session store can produce.                            *)
(***************************************************************************)
\* most getProfile calls in one run
MaxProfileCalls == 2
\* most times the guard is mounted in one run
MaxMounts == 2

ProtectedPaths == {"/dashboard", "/links/1/stats"}
LoginPath == "/login"

VARIABLES
  isAuthenticated,  \* useAuthStore().isAuthenticated
  authLoading,      \* useAuthStore().isLoading
  route,            \* "guard": ProtectedRoute is mounted; "login": the login page is
  location,         \* useLocation(), while the guard is mounted
  rendered,         \* what ProtectedRoute last returned: outlet, spinner, null; none when unmounted
  effectPending,    \* the effect is due: the guard was mounted or a dependency changed
  profileCalls,     \* getProfile calls awaited, each with the location its closure holds
  profileCount,     \* getProfile calls made so far
  mountSeq,         \* times the guard was mounted so far
  checked,          \* history: a getProfile started by this mount has resolved
  nav,              \* history: the last navigate() call
  authEv            \* history: the last step of the gate

authVars == <<isAuthenticated, authLoading, route, location, rendered, effectPending,
              profileCalls, profileCount, mountSeq, checked, nav, authEv>>

NoNav == [to |-> "", from |-> "", replace |-> FALSE, guarded |-> ""]

\* if (isLoading) return <spinner/>; return isAuthenticated ? <Outlet /> : null
Render(auth, loading) ==
  IF loading THEN "spinner" ELSE IF auth THEN "outlet" ELSE "null"

\* navigate('/login', { state: { from: location }, replace: true }); guarded is
\* the location the guard was deciding about (history)
NavigateWithoutFrom(loc) ==
  [to |-> LoginPath, from |-> "", replace |-> TRUE, guarded |-> loc]
NavigateToLogin(loc) ==
  [to |-> LoginPath, from |-> loc, replace |-> TRUE, guarded |-> loc]

AuthInit ==
  /\ isAuthenticated \in BOOLEAN
  /\ authLoading \in BOOLEAN
  /\ route = "guard"
  /\ location \in ProtectedPaths
  /\ rendered = Render(isAuthenticated, authLoading)
  /\ effectPending = TRUE
  /\ profileCalls = {}
  /\ profileCount = 0
  /\ mountSeq = 1
  /\ checked = FALSE
  /\ nav = NoNav
  /\ authEv = "mount"

\* the router shows the login page: the guard and its children are unmounted
ShowLogin(target) ==
  /\ nav' = target
  /\ route' = "login"
  /\ rendered' = "none"
  /\ effectPending' = FALSE

\* checkAuth, isAuthenticated branch: const user = await getProfile().
\* The store may or may not raise isLoading for the time of the call.
EffectChecksSession(raisesLoading) ==
  /\ route = "guard" /\ effectPending
  /\ isAuthenticated
  /\ profileCount < MaxProfileCalls
  /\ profileCount' = profileCount + 1
  /\ profileCalls' = profileCalls \cup
       {[n |-> profileCount + 1, from |-> location, mount |-> mountSeq]}
  /\ authLoading' = (authLoading \/ raisesLoading)
  /\ rendered' = Render(isAuthenticated, authLoading')
  /\ effectPending' = (authLoading' # authLoading)
  /\ authEv' = "effect:check"
  /\ UNCHANGED <<isAuthenticated, route, location, mountSeq, checked, nav>>

\* checkAuth, else-if branch: not authenticated and not loading
EffectRedirects ==
  /\ route = "guard" /\ effectPending
  /\ ~isAuthenticated /\ ~authLoading
  /\ ShowLogin(NavigateToLogin(location))
  /\ authEv' = "effect:redirect"
  /\ UNCHANGED <<isAuthenticated, authLoading, location, profileCalls, profileCount,
                 mountSeq, checked>>

\* checkAuth, neither branch: not authenticated, the store still loading
EffectWaits ==
  /\ route = "guard" /\ effectPending
  /\ ~isAuthenticated /\ authLoading
  /\ effectPending' = FALSE
  /\ authEv' = "effect:wait"
  /\ UNCHANGED <<isAuthenticated, authLoading, route, location, rendered, profileCalls,
                 profileCount, mountSeq, checked, nav>>

\* getProfile resolves with a user: the store holds an authenticated session
ProfileReturnsUser(c) ==
  /\ c \in profileCalls
  /\ profileCalls' = profileCalls \ {c}
  /\ isAuthenticated' = TRUE
  /\ authLoading' = FALSE
  /\ checked' = (checked \/ (route = "guard" /\ c.mount = mountSeq))
  /\ rendered' = IF route = "guard" THEN Render(TRUE, FALSE) ELSE rendered
  /\ effectPending' = IF route = "guard"
                      THEN effectPending \/ ~isAuthenticated \/ authLoading
                      ELSE effectPending
  /\ authEv' = "profile:user"
  /\ UNCHANGED <<route, location, profileCount, mountSeq, nav>>

\* getProfile resolves with no user: the store drops the session, and the
\* continuation of checkAuth navigates with the location its closure holds
ProfileReturnsNoUser(c) ==
  /\ c \in profileCalls
  /\ profileCalls' = profileCalls \ {c}
  /\ isAuthenticated' = FALSE
  /\ authLoading' = FALSE
  /\ checked' = (checked \/ (route = "guard" /\ c.mount = mountSeq))
  /\ ShowLogin(NavigateToLogin(c.from))
  /\ authEv' = "profile:none"
  /\ UNCHANGED <<location, profileCount, mountSeq>>

\* the store's own start-up check ends, with or without a session
SessionInitDone(hasSession) ==
  /\ authLoading /\ profileCalls = {}
  /\ authLoading' = FALSE
  /\ isAuthenticated' = hasSession
  /\ rendered' = IF route = "guard" THEN Render(hasSession, FALSE) ELSE rendered
  /\ effectPending' = (route = "guard")
  /\ authEv' = "store:ready"
  /\ UNCHANGED <<route, location, profileCalls, profileCount, mountSeq, checked, nav>>

\* the user logs out while a protected page is shown
Logout ==
  /\ route = "guard" /\ isAuthenticated
  /\ isAuthenticated' = FALSE
  /\ rendered' = Render(FALSE, authLoading)
  /\ effectPending' = TRUE
  /\ authEv' = "store:logout"
  /\ UNCHANGED <<authLoading, route, location, profileCalls, profileCount, mountSeq,
                 checked, nav>>

\* the user follows a link from one protected page to another
ChangeLocation(path) ==
  /\ route = "guard" /\ rendered = "outlet"
  /\ path # location
  /\ location' = path
  /\ effectPending' = TRUE
  /\ authEv' = "move"
  /\ UNCHANGED <<isAuthenticated, authLoading, route, rendered, profileCalls,
                 profileCount, mountSeq, checked, nav>>

\* the user logs in on the login page and is sent to the page asked for
LoginSucceeds ==
  /\ route = "login"
  /\ mountSeq < MaxMounts
  /\ nav.from \in ProtectedPaths
  /\ isAuthenticated' = TRUE
  /\ authLoading' = FALSE
  /\ route' = "guard"
  /\ location' = nav.from
  /\ rendered' = Render(TRUE, FALSE)
  /\ effectPending' = TRUE
  /\ mountSeq' = mountSeq + 1
  /\ checked' = FALSE
  /\ authEv' = "mount"
  /\ UNCHANGED <<profileCalls, profileCount, nav>>

AuthNext ==
  \/ \E raisesLoading \in BOOLEAN : EffectChecksSession(raisesLoading)
  \/ EffectRedirects
  \/ EffectWaits
  \/ \E c \in profileCalls : ProfileReturnsUser(c)
  \/ \E c \in profileCalls : ProfileReturnsNoUser(c)
  \/ \E hasSession \in BOOLEAN : SessionInitDone(hasSession)
  \/ Logout
  \/ \E path \in ProtectedPaths : ChangeLocation(path)
  \/ LoginSucceeds

(***************************************************************************)
(* QR generator (cln/app/components/QRCodeGenerator.tsx).  The component   *)
(* is modelled with its props (link, fullUrl) as inputs of its parent.     *)
(* QRCode.toCanvas draws during the call and its promise resolves in a     *)
(* microtask, so generateQRCode up to its finally block is one step; the   *)
(* logo image loads, canvas.toBlob calls back and the clipboard answers    *)
(* in later steps.                                                         *)
(***************************************************************************)
Sizes == {256, 512}
Levels == {"M", "H"}
Urls == {"https://sho.rt/s/aaa", "https://sho.rt/s/bbb"}
Subtitles == {"", "PSU"}

VARIABLES
  size,                  \* useState(256)
  errorCorrectionLevel,  \* useState('M')
  withLogo,              \* props.link.withLogo
  qrSubtitle,            \* props.link.qrSubtitle ("" when there is none)
  fullUrl,               \* props.fullUrl
  isGenerating,          \* useState(false)
  canvas,                \* what the canvas element shows
  qrEffectPending,       \* the regenerate effect is due
  logoLoads,             \* logo images loading, each with the size and the
                         \* caption its onload closure holds
  genFailed,             \* history: the last generateQRCode ended in its catch block
  logoFailed,            \* history: the last logo load ended in logo.onerror
  copy                   \* handleCopy: how far the last call got, and what it did

qrVars == <<size, errorCorrectionLevel, withLogo, qrSubtitle, fullUrl, isGenerating,
            canvas, qrEffectPending, logoLoads, genFailed, logoFailed, copy>>

Blank == [url |-> "", size |-> 0, level |-> "", logo |-> 0, caption |-> ""]
\* phase: idle, blob (toBlob will call back), write (clipboard.write awaited),
\* fallback (clipboard.writeText awaited), done
CopyState(phase, imageFailed, fallbackFailed, toast) ==
  [phase |-> phase, imageFailed |-> imageFailed, fallbackFailed |-> fallbackFailed,
   toast |-> toast]
NoCopy == CopyState("idle", FALSE, FALSE, "")

QrInit ==
  /\ size = 256
  /\ errorCorrectionLevel = "M"
  /\ withLogo \in BOOLEAN
  /\ qrSubtitle \in Subtitles
  /\ fullUrl \in Urls
  /\ isGenerating = FALSE
  /\ canvas = Blank
  /\ qrEffectPending = TRUE
  /\ logoLoads = {}
  /\ genFailed = FALSE
  /\ logoFailed = FALSE
  /\ copy = NoCopy

\* useEffect(..., [size, errorCorrectionLevel, link.withLogo, link.qrSubtitle]):
\* whether a render with new state or props makes the effect due
DepsChanged(newSize, newLevel, newWithLogo, newSubtitle, newUrl) ==
  \/ newSize # size
  \/ newLevel # errorCorrectionLevel
  \/ newWithLogo # withLogo
  \/ newSubtitle # qrSubtitle

\* generateQRCode, toCanvas succeeds
Generate ==
  /\ qrEffectPending
  /\ canvas' = [url |-> fullUrl, size |-> size, level |-> errorCorrectionLevel,
                logo |-> 0,
                caption |-> IF ~withLogo /\ qrSubtitle # "" THEN qrSubtitle ELSE ""]
  /\ logoLoads' = IF withLogo
                  THEN logoLoads \cup {[size |-> size, subtitle |-> qrSubtitle]}
                  ELSE logoLoads
  /\ isGenerating' = FALSE
  /\ qrEffectPending' = FALSE
  /\ genFailed' = FALSE
  /\ logoFailed' = FALSE
  /\ UNCHANGED <<size, errorCorrectionLevel, withLogo, qrSubtitle, fullUrl, copy>>
  /\ UNCHANGED toastVars

\* generateQRCode, toCanvas throws: the catch block shows the error toast
GenerateFails ==
  /\ qrEffectPending
  /\ showError("qr.generate.error", DefaultDuration)
  /\ isGenerating' = FALSE
  /\ qrEffectPending' = FALSE
  /\ genFailed' = TRUE
  /\ UNCHANGED <<size, errorCorrectionLevel, withLogo, qrSubtitle, fullUrl, canvas,
                 logoLoads, logoFailed, copy>>

\* logo.onload: the logo (a fifth of the size the closure holds) and, if the
\* closure holds one, the caption are drawn on the canvas as it is by then
LogoLoaded(l) ==
  /\ l \in logoLoads
  /\ logoLoads' = logoLoads \ {l}
  /\ canvas' = [canvas EXCEPT !.logo = l.size,
                              !.caption = IF l.subtitle # "" THEN l.subtitle ELSE @]
  /\ logoFailed' = FALSE
  /\ UNCHANGED <<size, errorCorrectionLevel, withLogo, qrSubtitle, fullUrl, isGenerating,
                 qrEffectPending, genFailed, copy>>
  /\ UNCHANGED toastVars

\* logo.onerror: console.error, nothing else
LogoFailedShowsError(l) ==
  /\ l \in logoLoads
  /\ logoLoads' = logoLoads \ {l}
  /\ logoFailed' = TRUE
  /\ UNCHANGED <<size, errorCorrectionLevel, withLogo, qrSubtitle, fullUrl, isGenerating,
                 canvas, qrEffectPending, genFailed, copy>>
  /\ showError("qr.generate.error", DefaultDuration)
LogoFailed(l) ==
  /\ l \in logoLoads
  /\ logoLoads' = logoLoads \ {l}
  /\ logoFailed' = TRUE
  /\ UNCHANGED <<size, errorCorrectionLevel, withLogo, qrSubtitle, fullUrl, isGenerating,
                 canvas, qrEffectPending, genFailed, copy>>
  /\ UNCHANGED toastVars

\* the size select; React runs a due effect before it handles the next event
setSize(s) ==
  /\ ~qrEffectPending
  /\ s # size
  /\ qrEffectPending' = (qrEffectPending
                           \/ DepsChanged(s, errorCorrectionLevel, withLogo, qrSubtitle, fullUrl))
  /\ size' = s
  /\ UNCHANGED <<errorCorrectionLevel, withLogo, qrSubtitle, fullUrl, isGenerating, canvas,
                 logoLoads, genFailed, logoFailed, copy>>
  /\ UNCHANGED toastVars

setErrorCorrectionLevel(l) ==
  /\ ~qrEffectPending
  /\ l # errorCorrectionLevel
  /\ qrEffectPending' = (qrEffectPending
                           \/ DepsChanged(size, l, withLogo, qrSubtitle, fullUrl))
  /\ errorCorrectionLevel' = l
  /\ UNCHANGED <<size, withLogo, qrSubtitle, fullUrl, isGenerating, canvas, logoLoads,
                 genFailed, logoFailed, copy>>
  /\ UNCHANGED toastVars

\* the parent renders the generator again with other props
PropsChange(newWithLogo, newSubtitle, newUrl) ==
  /\ <<newWithLogo, newSubtitle, newUrl>> # <<withLogo, qrSubtitle, fullUrl>>
  /\ qrEffectPending' = (qrEffectPending
                           \/ DepsChanged(size, errorCorrectionLevel, newWithLogo,
                                          newSubtitle, newUrl))
  /\ withLogo' = newWithLogo
  /\ qrSubtitle' = newSubtitle
  /\ fullUrl' = newUrl
  /\ UNCHANGED <<size, errorCorrectionLevel, isGenerating, canvas, logoLoads, genFailed,
                 logoFailed, copy>>
  /\ UNCHANGED toastVars

qrFrame == <<size, errorCorrectionLevel, withLogo, qrSubtitle, fullUrl, isGenerating,
             canvas, qrEffectPending, logoLoads, genFailed, logoFailed>>

\* the Download and Copy buttons: disabled={isGenerating}, and a click is
\* handled after the effects that are due
ButtonsEnabled == ~isGenerating /\ ~qrEffectPending

\* handleDownload: toBlob hands over the image, or null
handleDownload(blobOk) ==
  /\ ButtonsEnabled
  /\ IF blobOk THEN showSuccess("qr.download.success", DefaultDuration)
               ELSE showError("qr.download.error", DefaultDuration)
  /\ UNCHANGED <<qrFrame, copy>>

\* handleCopy up to the end of its try block, toBlob accepts the call: the
\* callback runs later, outside the try
handleCopy ==
  /\ copy.phase \in {"idle", "done"}
  /\ ButtonsEnabled
  /\ copy' = CopyState("blob", FALSE, FALSE, "")
  /\ UNCHANGED qrFrame
  /\ UNCHANGED toastVars

\* handleCopy, toBlob throws (a canvas tainted by a cross-origin logo): the
\* catch block starts the fallback, await navigator.clipboard.writeText(fullUrl)
handleCopyToBlobThrows ==
  /\ copy.phase \in {"idle", "done"}
  /\ ButtonsEnabled
  /\ canvas.logo # 0
  /\ copy' = CopyState("fallback", TRUE, FALSE, "")
  /\ UNCHANGED qrFrame
  /\ UNCHANGED toastVars

\* the callback of toBlob, with a blob: await navigator.clipboard.write([item])
CopyBlobReady ==
  /\ copy.phase = "blob"
  /\ copy' = CopyState("write", FALSE, FALSE, "")
  /\ UNCHANGED qrFrame
  /\ UNCHANGED toastVars

\* the callback of toBlob, with null: the throw rejects the promise of the
\* async callback, which nothing awaits
CopyBlobNull ==
  /\ copy.phase = "blob"
  /\ copy' = CopyState("done", TRUE, FALSE, "")
  /\ UNCHANGED qrFrame
  /\ UNCHANGED toastVars

\* clipboard.write resolves
CopyWritten ==
  /\ copy.phase = "write"
  /\ showSuccess("qr.copy.success", DefaultDuration)
  /\ copy' = CopyState("done", FALSE, FALSE, "qr.copy.success")
  /\ UNCHANGED qrFrame

\* clipboard.write rejects, inside the async callback: nothing awaits it
CopyWriteRejected ==
  /\ copy.phase = "write"
  /\ copy' = CopyState("done", TRUE, FALSE, "")
  /\ UNCHANGED qrFrame
  /\ UNCHANGED toastVars

\* the fallback's writeText resolves
CopyUrlWritten ==
  /\ copy.phase = "fallback"
  /\ showSuccess("qr.copyUrl.success", DefaultDuration)
  /\ copy' = CopyState("done", TRUE, FALSE, "qr.copyUrl.success")
  /\ UNCHANGED qrFrame

\* the fallback's writeText rejects
CopyUrlRejected ==
  /\ copy.phase = "fallback"
  /\ showError("qr.copy.error", DefaultDuration)
  /\ copy' = CopyState("done", TRUE, TRUE, "qr.copy.error")
  /\ UNCHANGED qrFrame

\* QrSpec: generation
QrNext ==
  \/ Generate
  \/ GenerateFails
  \/ \E l \in logoLoads : LogoLoaded(l)
  \/ \E l \in logoLoads : LogoFailed(l)
  \/ \E s \in Sizes : setSize(s)
  \/ \E l \in Levels : setErrorCorrectionLevel(l)
  \/ \E w \in BOOLEAN, t \in Subtitles, u \in Urls : PropsChange(w, t, u)

\* CopySpec: the two actions on a generated canvas
CopyNext ==
  \/ Generate
  \/ \E l \in logoLoads : LogoLoaded(l)
  \/ \E l \in logoLoads : LogoFailed(l)
  \/ \E blobOk \in BOOLEAN : handleDownload(blobOk)
  \/ handleCopy
  \/ handleCopyToBlobThrows
  \/ CopyBlobReady
  \/ CopyBlobNull
  \/ CopyWritten
  \/ CopyWriteRejected
  \/ CopyUrlWritten
  \/ CopyUrlRejected
  \/ \E t \in timers : TimerFires(t) /\ UNCHANGED qrVars

(***************************************************************************)
(* Dashboard and its dialogs (unnamed/part_002), with the create form and  *)
(* the edit dialog (cln/app/components/AppHeader.tsx).  A handler runs     *)
(* from the event, or from the response it awaits, to its end: the store's *)
(* continuation, the form's continuation and the callbacks of the          *)
(* dashboard run in one task.  The dialogs are modal, so one is open at a  *)
(* time.                                                                   *)
(***************************************************************************)
\* what the URL field can hold: nothing, a text new URL() rejects, a URL
FormUrls == {"", "not-a-valid-url", "https://example.org/a"}
ParsableUrls == {"https://example.org/a"}
\* what a date-time field can hold: null, a Dayjs that is Invalid Date (the
\* picker hands one over for a partly typed value), or a date at time t
Times == {1, 2}
DateAt(t) == [present |-> TRUE, valid |-> TRUE, t |-> t]
NullDate == [present |-> FALSE, valid |-> FALSE, t |-> 0]
InvalidDate == [present |-> TRUE, valid |-> FALSE, t |-> 0]
DateValues == {NullDate, InvalidDate} \cup {DateAt(t) : t \in Times}
FormData ==
  [originalUrl : FormUrls, startDateTime : DateValues, endDateTime : DateValues]
FormValues(url, start, end) ==
  [originalUrl |-> url, startDateTime |-> start, endDateTime |-> end]
\* the values the scenarios type in: a URL alone, no URL, a text that is no
\* URL, dates in order, equal, out of order, and a start that is Invalid
\* Date with no end and with one
FormInputs ==
  {FormValues("https://example.org/a", NullDate, NullDate),
   FormValues("", NullDate, NullDate),
   FormValues("not-a-valid-url", DateAt(1), DateAt(2)),
   FormValues("https://example.org/a", DateAt(1), DateAt(2)),
   FormValues("https://example.org/a", DateAt(1), DateAt(1)),
   FormValues("https://example.org/a", DateAt(2), DateAt(1)),
   FormValues("https://example.org/a", InvalidDate, NullDate),
   FormValues("https://example.org/a", InvalidDate, DateAt(2))}
\* useForm defaultValues of the create form
CreateDefaults ==
  [originalUrl |-> "", startDateTime |-> NullDate, endDateTime |-> NullDate]
\* useForm defaultValues of the edit dialog: the values of the link, which
\* the server accepted
EditDefaults ==
  [originalUrl |-> "https://example.org/a", startDateTime |-> NullDate,
   endDateTime |-> NullDate]

\* dayjs(a).isBefore(dayjs(b)): false when either is Invalid Date
IsBeforeOrSame(a, b) == a.valid /\ b.valid /\ a.t <= b.t
IsBefore(a, b) == a.valid /\ b.valid /\ a.t < b.t
\* z.string().min(1).url()
UrlOk(text) == text # "" /\ text \in ParsableUrls
\* the refinement: if (data.startDateTime && data.endDateTime) return isBefore
DatesOk(data) ==
  (data.startDateTime.present /\ data.endDateTime.present)
    => IsBefore(data.startDateTime, data.endDateTime)
linkSchema(data) == UrlOk(data.originalUrl) /\ DatesOk(data)
editLinkSchema(data) == UrlOk(data.originalUrl) /\ DatesOk(data)
\* data.startDateTime ? dayjs(data.startDateTime).toISOString() : undefined
\* throws a RangeError for Invalid Date
ToISOStringThrows(d) == d.present /\ ~d.valid
DtoThrows(data) ==
  ToISOStringThrows(data.startDateTime) \/ ToISOStringThrows(data.endDateTime)

\* the search box: empty, or a text that one short code contains
SearchTerms == {"", "aaa"}
\* the filter of filteredLinks, on what a record of the model carries
MatchesSearch(link, term) == term = "" \/ link.shortCode = term

VARIABLES
  showCreateForm,     \* useState(false)
  editingLink,        \* useState<LinkEntry | null>(null)
  deleteConfirmLink,  \* useState<LinkEntry | null>(null)
  searchTerm,         \* useState('')
  formData,           \* the field values of the form in the open dialog (the
                      \* defaults when none is open: a closed dialog unmounts its form)
  formErrors,         \* formState.errors is not empty
  dashEv              \* history: the last step of the dashboard

dashVars == <<showCreateForm, editingLink, deleteConfirmLink, searchTerm, formData,
              formErrors, dashEv>>

\* step: init, open, close, change, search, invalid, threw, sent, resolved,
\* rejected, refreshed; form: create, edit, delete or none
DashEvent(step, form) == [step |-> step, form |-> form]

\* rows={filteredLinks}
filteredLinks == SelectSeq(links, LAMBDA link : MatchesSearch(link, searchTerm))
Shown(link) == \E k \in 1..Len(filteredLinks) : filteredLinks[k] = link
NoDialog == ~showCreateForm /\ editingLink = NullLink /\ deleteConfirmLink = NullLink

DashInit ==
  /\ showCreateForm = FALSE
  /\ editingLink = NullLink
  /\ deleteConfirmLink = NullLink
  /\ searchTerm = ""
  /\ formData = CreateDefaults
  /\ formErrors = FALSE
  /\ dashEv = DashEvent("init", "none")

\* what every dashboard step leaves alone unless it says otherwise
StoreUntouched == UNCHANGED linkVars
DataUntouched == UNCHANGED <<currentLink, totalCount, pagination>> /\ Persisted

\* err.response?.data?.message || intl.formatMessage({ id })
ToastText(msg, id) == IF msg = NoMessage \/ msg = "" THEN id ELSE msg

\* getUserLinks() // Refresh the list: the call made at the end of a handler
\* whose request, the i-th, has just been answered
RefreshAfter(i) ==
  /\ isLoading' = TRUE
  /\ error' = NoError
  /\ reqs' = Append(Remove(i), [op |-> "getUserLinks", queryParams |-> pagination,
                                overtaken |-> FALSE])

\* the catch block of the store operation whose request is the i-th
StoreCatch(i, msg) ==
  /\ isLoading' = FALSE
  /\ error' = ErrorMessage(msg, reqs[i].op)
  /\ reqs' = Remove(i)
  /\ ev' = Failure(reqs[i], msg)
  /\ UNCHANGED links
  /\ DataUntouched

(* the buttons and the search box *)
openCreateForm ==
  /\ NoDialog
  /\ showCreateForm' = TRUE
  /\ formData' = CreateDefaults
  /\ formErrors' = FALSE
  /\ dashEv' = DashEvent("open", "create")
  /\ UNCHANGED <<editingLink, deleteConfirmLink, searchTerm>>
  /\ StoreUntouched /\ UNCHANGED toastVars

closeCreateForm ==
  /\ showCreateForm
  /\ showCreateForm' = FALSE
  /\ formData' = CreateDefaults
  /\ formErrors' = FALSE
  /\ dashEv' = DashEvent("close", "create")
  /\ UNCHANGED <<editingLink, deleteConfirmLink, searchTerm>>
  /\ StoreUntouched /\ UNCHANGED toastVars

setEditingLink(link) ==
  /\ NoDialog
  /\ Shown(link)
  /\ editingLink' = link
  /\ formData' = EditDefaults
  /\ formErrors' = FALSE
  /\ dashEv' = DashEvent("open", "edit")
  /\ UNCHANGED <<showCreateForm, deleteConfirmLink, searchTerm>>
  /\ StoreUntouched /\ UNCHANGED toastVars

closeEditDialog ==
  /\ editingLink # NullLink
  /\ editingLink' = NullLink
  /\ formData' = CreateDefaults
  /\ formErrors' = FALSE
  /\ dashEv' = DashEvent("close", "edit")
  /\ UNCHANGED <<showCreateForm, deleteConfirmLink, searchTerm>>
  /\ StoreUntouched /\ UNCHANGED toastVars

deleteWithoutConfirm(link) ==
  /\ NoDialog
  /\ Shown(link)
  /\ Len(reqs) < Cardinality(Slots)
  /\ isLoading' = TRUE
  /\ error' = NoError
  /\ reqs' = Append(reqs, [op |-> "deleteLink", id |-> link.id, overtaken |-> FALSE])
  /\ ev' = Event("start", [op |-> "deleteLink"], NullLink, NoMessage)
  /\ UNCHANGED links
  /\ DataUntouched
  /\ dashEv' = DashEvent("sent", "delete")
  /\ UNCHANGED <<showCreateForm, editingLink, deleteConfirmLink, searchTerm, formData,
                 formErrors>>
  /\ UNCHANGED toastVars
setDeleteConfirmLink(link) ==
  /\ NoDialog
  /\ Shown(link)
  /\ deleteConfirmLink' = link
  /\ dashEv' = DashEvent("open", "delete")
  /\ UNCHANGED <<showCreateForm, editingLink, searchTerm, formData, formErrors>>
  /\ StoreUntouched /\ UNCHANGED toastVars

cancelDelete ==
  /\ deleteConfirmLink # NullLink
  /\ deleteConfirmLink' = NullLink
  /\ dashEv' = DashEvent("close", "delete")
  /\ UNCHANGED <<showCreateForm, editingLink, searchTerm, formData, formErrors>>
  /\ StoreUntouched /\ UNCHANGED toastVars

setSearchTerm(term) ==
  /\ NoDialog
  /\ term # searchTerm
  /\ searchTerm' = term
  /\ dashEv' = DashEvent("search", "none")
  /\ UNCHANGED <<showCreateForm, editingLink, deleteConfirmLink, formData, formErrors>>
  /\ StoreUntouched /\ UNCHANGED toastVars

\* the user fills in the fields of the open form; they are disabled while
\* the store is loading
changeForm(data) ==
  /\ showCreateForm \/ editingLink # NullLink
  /\ ~isLoading
  /\ data # formData
  /\ formData' = data
  /\ dashEv' = DashEvent("change", IF showCreateForm THEN "create" ELSE "edit")
  /\ UNCHANGED <<showCreateForm, editingLink, deleteConfirmLink, searchTerm, formErrors>>
  /\ StoreUntouched /\ UNCHANGED toastVars

\* the scenarios submit a form when no request is awaited: its fields and
\* its submit button are disabled while the store is loading
Idle == reqs = <<>>

(* LinkCreateForm: handleSubmit(onSubmit) *)
CanSubmitCreate == showCreateForm /\ ~isLoading

\* the resolver rejects the values: the errors are shown, onSubmit is not called
submitCreateInvalid ==
  /\ CanSubmitCreate
  /\ ~linkSchema(formData)
  /\ formErrors' = TRUE
  /\ dashEv' = DashEvent("invalid", "create")
  /\ UNCHANGED <<showCreateForm, editingLink, deleteConfirmLink, searchTerm, formData>>
  /\ StoreUntouched /\ UNCHANGED toastVars

\* onSubmit: clearError(), then building createData throws; the catch block
\* shows the error toast
submitCreateThrows ==
  /\ CanSubmitCreate
  /\ linkSchema(formData)
  /\ DtoThrows(formData)
  /\ error' = NoError
  /\ ev' = Event("ui", [op |-> "clearError"], NullLink, NoMessage)
  /\ UNCHANGED <<links, isLoading, reqs>>
  /\ DataUntouched
  /\ showError(ToastText(NoMessage, "link.create.error"), DefaultDuration)
  /\ formErrors' = FALSE
  /\ dashEv' = DashEvent("threw", "create")
  /\ UNCHANGED <<showCreateForm, editingLink, deleteConfirmLink, searchTerm, formData>>

\* onSubmit: clearError(), createData built, await createLink(createData)
submitCreateSends ==
  /\ CanSubmitCreate
  /\ linkSchema(formData)
  /\ ~DtoThrows(formData)
  /\ Idle
  /\ isLoading' = TRUE
  /\ error' = NoError
  /\ reqs' = Append(reqs, [op |-> "createLink", overtaken |-> FALSE])
  /\ ev' = Event("start", [op |-> "createLink"], NullLink, NoMessage)
  /\ UNCHANGED links
  /\ DataUntouched
  /\ formErrors' = FALSE
  /\ dashEv' = DashEvent("sent", "create")
  /\ UNCHANGED <<showCreateForm, editingLink, deleteConfirmLink, searchTerm, formData>>
  /\ UNCHANGED toastVars

\* createLink resolves: the store puts the new link first; onSubmit shows the
\* success toast and resets the form; the dashboard's onSuccess closes the
\* dialog and starts the refresh
createResolves(i, newLink) ==
  /\ Awaits(i, "createLink")
  /\ Len(links) < MaxLinks
  /\ \A k \in 1..Len(links) : links[k].id # newLink.id
  /\ links' = LinksAfterCreate(links, newLink)
  /\ ev' = Event("ok", reqs[i], newLink, NoMessage)
  /\ RefreshAfter(i)
  /\ DataUntouched
  /\ showSuccess("link.create.success", DefaultDuration)
  /\ formData' = IF showCreateForm THEN CreateDefaults ELSE formData
  /\ formErrors' = IF showCreateForm THEN FALSE ELSE formErrors
  /\ showCreateForm' = FALSE
  /\ dashEv' = DashEvent("resolved", "create")
  /\ UNCHANGED <<editingLink, deleteConfirmLink, searchTerm>>

\* createLink rejects: the store's catch block, then onSubmit's
createRejectsAndResets(i, msg) ==
  /\ Awaits(i, "createLink")
  /\ StoreCatch(i, msg)
  /\ showError(ToastText(msg, "link.create.error"), DefaultDuration)
  /\ dashEv' = DashEvent("rejected", "create")
  /\ formData' = CreateDefaults
  /\ UNCHANGED <<showCreateForm, editingLink, deleteConfirmLink, searchTerm, formErrors>>
createRejects(i, msg) ==
  /\ Awaits(i, "createLink")
  /\ StoreCatch(i, msg)
  /\ showError(ToastText(msg, "link.create.error"), DefaultDuration)
  /\ dashEv' = DashEvent("rejected", "create")
  /\ UNCHANGED <<showCreateForm, editingLink, deleteConfirmLink, searchTerm, formData,
                 formErrors>>

(* LinkEditDialog: handleSubmit(onSubmit) *)
CanSubmitEdit == editingLink # NullLink /\ ~isLoading

submitEditInvalid ==
  /\ CanSubmitEdit
  /\ ~editLinkSchema(formData)
  /\ formErrors' = TRUE
  /\ dashEv' = DashEvent("invalid", "edit")
  /\ UNCHANGED <<showCreateForm, editingLink, deleteConfirmLink, searchTerm, formData>>
  /\ StoreUntouched /\ UNCHANGED toastVars

submitEditThrows ==
  /\ CanSubmitEdit
  /\ editLinkSchema(formData)
  /\ DtoThrows(formData)
  /\ error' = NoError
  /\ ev' = Event("ui", [op |-> "clearError"], NullLink, NoMessage)
  /\ UNCHANGED <<links, isLoading, reqs>>
  /\ DataUntouched
  /\ showError(ToastText(NoMessage, "link.edit.error"), DefaultDuration)
  /\ formErrors' = FALSE
  /\ dashEv' = DashEvent("threw", "edit")
  /\ UNCHANGED <<showCreateForm, editingLink, deleteConfirmLink, searchTerm, formData>>

\* onSubmit: clearError(), updateData built, await updateLink(link.id, updateData)
submitEditSends ==
  /\ CanSubmitEdit
  /\ editLinkSchema(formData)
  /\ ~DtoThrows(formData)
  /\ Idle
  /\ isLoading' = TRUE
  /\ error' = NoError
  /\ reqs' = Append(reqs, [op |-> "updateLink", id |-> editingLink.id,
                           overtaken |-> FALSE])
  /\ ev' = Event("start", [op |-> "updateLink"], NullLink, NoMessage)
  /\ UNCHANGED links
  /\ DataUntouched
  /\ formErrors' = FALSE
  /\ dashEv' = DashEvent("sent", "edit")
  /\ UNCHANGED <<showCreateForm, editingLink, deleteConfirmLink, searchTerm, formData>>
  /\ UNCHANGED toastVars

\* updateLink resolves: the store replaces the record; onSubmit shows the
\* success toast; onSuccess closes the dialog and starts the refresh; onClose
editResolves(i, updatedLink) ==
  /\ Awaits(i, "updateLink")
  /\ updatedLink.id = reqs[i].id
  /\ links' = MapReplaceById(links, reqs[i].id, updatedLink)
  /\ currentLink' = CurrentLinkAfterUpdate(currentLink, reqs[i].id, updatedLink)
  /\ ev' = Event("ok", reqs[i], updatedLink, NoMessage)
  /\ RefreshAfter(i)
  /\ UNCHANGED <<totalCount, pagination>>
  /\ Persisted
  /\ showSuccess("link.edit.success", DefaultDuration)
  /\ editingLink' = NullLink
  /\ formData' = IF editingLink # NullLink THEN CreateDefaults ELSE formData
  /\ formErrors' = IF editingLink # NullLink THEN FALSE ELSE formErrors
  /\ dashEv' = DashEvent("resolved", "edit")
  /\ UNCHANGED <<showCreateForm, deleteConfirmLink, searchTerm>>

editRejects(i, msg) ==
  /\ Awaits(i, "updateLink")
  /\ StoreCatch(i, msg)
  /\ showError(ToastText(msg, "link.edit.error"), DefaultDuration)
  /\ dashEv' = DashEvent("rejected", "edit")
  /\ UNCHANGED <<showCreateForm, editingLink, deleteConfirmLink, searchTerm, formData,
                 formErrors>>

(* Dashboard: delete *)
\* handleDeleteConfirm up to await deleteLink(deleteConfirmLink.id)
handleDeleteConfirm ==
  /\ deleteConfirmLink # NullLink
  /\ Len(reqs) < Cardinality(Slots)
  /\ isLoading' = TRUE
  /\ error' = NoError
  /\ reqs' = Append(reqs, [op |-> "deleteLink", id |-> deleteConfirmLink.id,
                           overtaken |-> FALSE])
  /\ ev' = Event("start", [op |-> "deleteLink"], NullLink, NoMessage)
  /\ UNCHANGED links
  /\ DataUntouched
  /\ dashEv' = DashEvent("sent", "delete")
  /\ UNCHANGED <<showCreateForm, editingLink, deleteConfirmLink, searchTerm, formData,
                 formErrors>>
  /\ UNCHANGED toastVars

\* deleteLink resolves: the store drops the record; the handler shows the
\* success toast, closes the confirmation and starts the refresh
deleteResolves(i) ==
  /\ Awaits(i, "deleteLink")
  /\ links' = FilterOutId(links, reqs[i].id)
  /\ currentLink' = CurrentLinkAfterDelete(currentLink, reqs[i].id)
  /\ ev' = Event("ok", reqs[i], NullLink, NoMessage)
  /\ RefreshAfter(i)
  /\ UNCHANGED <<totalCount, pagination>>
  /\ Persisted
  /\ showSuccess("link.delete.success", DefaultDuration)
  /\ deleteConfirmLink' = NullLink
  /\ dashEv' = DashEvent("resolved", "delete")
  /\ UNCHANGED <<showCreateForm, editingLink, searchTerm, formData, formErrors>>

\* deleteLink rejects: the store's catch block, then the handler's, which
\* shows its own text
deleteRejects(i, msg) ==
  /\ Awaits(i, "deleteLink")
  /\ StoreCatch(i, msg)
  /\ showError("link.delete.error", DefaultDuration)
  /\ dashEv' = DashEvent("rejected", "delete")
  /\ UNCHANGED <<showCreateForm, editingLink, deleteConfirmLink, searchTerm, formData,
                 formErrors>>

(* the list requests: the one made on mount and the refreshes *)
refreshResolves(i, data) ==
  /\ getUserLinksOk(i, data)
  /\ dashEv' = DashEvent("refreshed", "none")
  /\ UNCHANGED <<showCreateForm, editingLink, deleteConfirmLink, searchTerm, formData,
                 formErrors>>
  /\ UNCHANGED toastVars

\* nothing awaits the refresh: the store keeps the error, no toast is shown
refreshRejects(i, msg) ==
  /\ Awaits(i, "getUserLinks")
  /\ Catch(i, msg)
  /\ dashEv' = DashEvent("refresh failed", "none")
  /\ UNCHANGED <<showCreateForm, editingLink, deleteConfirmLink, searchTerm, formData,
                 formErrors>>
  /\ UNCHANGED toastVars

\* what the server answers in the dashboard scenarios: a failure with and
\* without a message, a new record, a new version of a record, a page
DashMessages == {NoMessage, "Forbidden"}
NewLinks == {l \in LinkEntry : l.ver = 0}
UpdatedLinks == {l \in LinkEntry : l.ver = 1}
DashLists ==
  {s \in ListResponses : (\A k \in 1..Len(s) : s[k].ver = 0) /\ (Len(s) = 2 => s[1].id = 2)}

DashNext ==
  \/ openCreateForm
  \/ closeCreateForm
  \/ \E link \in LinkEntry : setEditingLink(link)
  \/ closeEditDialog
  \/ \E link \in LinkEntry : setDeleteConfirmLink(link)
  \/ cancelDelete
  \/ \E term \in SearchTerms : setSearchTerm(term)
  \/ \E data \in FormInputs : changeForm(data)
  \/ submitCreateInvalid
  \/ submitCreateThrows
  \/ submitCreateSends
  \/ \E i \in Slots, newLink \in NewLinks : createResolves(i, newLink)
  \/ \E i \in Slots, msg \in DashMessages : createRejects(i, msg)
  \/ submitEditInvalid
  \/ submitEditThrows
  \/ submitEditSends
  \/ \E i \in Slots, updatedLink \in UpdatedLinks : editResolves(i, updatedLink)
  \/ \E i \in Slots, msg \in DashMessages : editRejects(i, msg)
  \/ handleDeleteConfirm
  \/ \E i \in Slots : deleteResolves(i)
  \/ \E i \in Slots : deleteRejects(i, "Forbidden")
  \/ \E i \in Slots, data \in DashLists : refreshResolves(i, data)
  \/ \E i \in Slots : refreshRejects(i, "Forbidden")

(***************************************************************************)
(* PageSpec: the dashboard's grid pagination (unnamed/part_002) and the    *)
(* store's, through page changes, refreshes, leaving the dashboard and     *)
(* loading the page again.                                                 *)
(***************************************************************************)
VARIABLES
  paginationModel,  \* useState({ page: 0, pageSize: pagination.max || 50 })
  dashMounted       \* the Dashboard component is mounted

pageVars == <<paginationModel, dashMounted>>

NoModel == [page |-> 0, pageSize |-> 0]
\* pageSizeOptions={[10, 25, 50, 100]}, of which two, and two pages
GridPageSizes == {10, 50}
GridModels == {[page |-> pg, pageSize |-> ps] : pg \in Pages, ps \in GridPageSizes}

PageInit ==
  /\ paginationModel = NoModel
  /\ dashMounted = FALSE

\* pagination.max || 50
MaxOrDefault(p) == IF "max" \in DOMAIN p /\ p.max # 0 THEN p.max ELSE 50

\* the component mounts: its state is initialised from the store and its
\* effect calls getUserLinks()
DashboardMounts ==
  /\ ~dashMounted
  /\ dashMounted' = TRUE
  /\ paginationModel' = [page |-> 0, pageSize |-> MaxOrDefault(pagination)]
  /\ getUserLinksNoParams

\* onPaginationModelChange: setPaginationModel, setPagination, getUserLinks
onPaginationModelChange(model) ==
  /\ dashMounted
  /\ model # paginationModel
  /\ Len(reqs) < Cardinality(Slots)
  /\ paginationModel' = model
  /\ pagination' = Spread(pagination, [max |-> model.pageSize,
                                       offset |-> model.page * model.pageSize])
  /\ isLoading' = TRUE
  /\ error' = NoError
  /\ reqs' = Append(reqs, [op |-> "getUserLinks",
                           queryParams |-> [max |-> model.pageSize,
                                            offset |-> model.page * model.pageSize],
                           overtaken |-> FALSE])
  /\ ev' = Event("start", [op |-> "getUserLinks"], NullLink, NoMessage)
  /\ UNCHANGED <<links, currentLink, totalCount, dashMounted>>
  /\ Persisted

\* getUserLinks() // Refresh the list, after a create, an edit or a delete
pageRefresh ==
  /\ dashMounted
  /\ getUserLinksNoParams
  /\ UNCHANGED pageVars

pageListOk(i, data) ==
  /\ getUserLinksOk(i, data)
  /\ UNCHANGED pageVars

pageListFails(i) ==
  /\ Awaits(i, "getUserLinks")
  /\ Catch(i, "Forbidden")
  /\ UNCHANGED pageVars

\* the user goes to another route: the component unmounts, the store stays
DashboardUnmounts ==
  /\ dashMounted
  /\ dashMounted' = FALSE
  /\ paginationModel' = NoModel
  /\ UNCHANGED linkVars

\* the page is loaded again in the same tab
pageReload ==
  /\ Rehydrate
  /\ dashMounted' = FALSE
  /\ paginationModel' = NoModel

PageLists == {<<>>, <<OneLink>>}

PageNext ==
  \/ DashboardMounts
  \/ \E model \in GridModels : onPaginationModelChange(model)
  \/ pageRefresh
  \/ \E i \in Slots, data \in PageLists : pageListOk(i, data)
  \/ \E i \in Slots : pageListFails(i)
  \/ DashboardUnmounts
  \/ pageReload

(***************************************************************************)
(* ChipSpec: the status chip of a grid row (unnamed/part_002,              *)
(* getStatusChip), for every link and every time of rendering.             *)
(***************************************************************************)
\* the dates a link carries and the times a row is rendered at: before,
\* at, between and after them
ChipTimes == {1, 3}
Nows == 0..4
\* link.startDateTime ? dayjs(link.startDateTime) : null, for a field that is
\* absent, a text dayjs cannot parse, or a date
ChipDates == {NullDate, InvalidDate} \cup {DateAt(t) : t \in ChipTimes}
ChipLinks == [enabled : BOOLEAN, startDateTime : ChipDates, endDateTime : ChipDates]

VARIABLES
  chipLink,  \* the row's link
  chipNow,   \* dayjs() when the cell is rendered
  chip       \* the chip the cell shows

chipVars == <<chipLink, chipNow, chip>>

Chip(label, color) == [label |-> label, color |-> color]
NoChip == Chip("", "")

\* now.isBefore(d), now.isAfter(d): false when d is Invalid Date
NowIsBefore(now, d) == d.valid /\ now < d.t
NowIsAfter(now, d) == d.valid /\ now > d.t

getStatusChipEndFirst(link, now) ==
  IF ~link.enabled THEN Chip("link.status.inactive", "default")
  ELSE IF link.endDateTime.present /\ NowIsAfter(now, link.endDateTime)
       THEN Chip("link.status.expired", "error")
  ELSE IF link.startDateTime.present /\ NowIsBefore(now, link.startDateTime)
       THEN Chip("link.status.inactive", "warning")
  ELSE Chip("link.status.active", "success")
getStatusChip(link, now) ==
  IF ~link.enabled THEN Chip("link.status.inactive", "default")
  ELSE IF link.startDateTime.present /\ NowIsBefore(now, link.startDateTime)
       THEN Chip("link.status.inactive", "warning")
  ELSE IF link.endDateTime.present /\ NowIsAfter(now, link.endDateTime)
       THEN Chip("link.status.expired", "error")
  ELSE Chip("link.status.active", "success")

ChipInit ==
  /\ chipLink \in ChipLinks
  /\ chipNow \in Nows
  /\ chip = NoChip

\* renderCell of the status column
renderStatusCell ==
  /\ chip' = getStatusChip(chipLink, chipNow)
  /\ UNCHANGED <<chipLink, chipNow>>

ChipNext == renderStatusCell

(***************************************************************************)
(* Locale (cln/app/i18n.ts, cln/app/root.tsx,                              *)
(* cln/app/components/LanguageSwitcher.tsx)                                *)
(***************************************************************************)
\* export const locales = ['en', 'th']
locales == {"en", "th"}
\* localStorage.getItem('preferred-language'): null, or any text
NoStored == "<null>"
StoredValues == {NoStored, "", "en", "th", "fr", "TH"}
\* navigator.language, as its subtags: split('-') cuts it at the hyphens
LanguageTags == {<<"en">>, <<"en", "US">>, <<"th">>, <<"th", "TH">>, <<"fr", "FR">>, <<"TH">>}
SplitFirst(tag) == tag[1]

VARIABLES
  locale,               \* App: useState<Locale>('en')
  preferred,            \* localStorage['preferred-language']
  browserLanguage,      \* navigator.language
  localeEffectPending,  \* App's mount effect is due
  anchorEl,             \* LanguageSwitcher: the menu is open (useState(null))
  localeEv              \* history: the last step, and the last locale selected

localeVars == <<locale, preferred, browserLanguage, localeEffectPending, anchorEl, localeEv>>

getDefaultLocale == "en"

\* the stored preference if it is a supported locale, else the browser's
\* primary subtag if that is one, else the default
detectLocaleBrowserFirst ==
  IF SplitFirst(browserLanguage) \in locales THEN SplitFirst(browserLanguage)
  ELSE IF preferred # NoStored /\ preferred # "" /\ preferred \in locales THEN preferred
  ELSE getDefaultLocale
detectLocale ==
  IF preferred # NoStored /\ preferred # "" /\ preferred \in locales THEN preferred
  ELSE IF SplitFirst(browserLanguage) \in locales THEN SplitFirst(browserLanguage)
  ELSE getDefaultLocale

NoSelection == "<none>"
LocaleInit ==
  /\ locale = "en"
  /\ preferred \in StoredValues
  /\ browserLanguage \in LanguageTags
  /\ localeEffectPending = TRUE
  /\ anchorEl = FALSE
  /\ localeEv = [step |-> "load", selected |-> NoSelection]

\* useEffect(() => { setLocale(detectLocale()) }, [])
LocaleEffect ==
  /\ localeEffectPending
  /\ locale' = detectLocale
  /\ localeEffectPending' = FALSE
  /\ localeEv' = [localeEv EXCEPT !.step = "detect"]
  /\ UNCHANGED <<preferred, browserLanguage, anchorEl>>

\* the switcher's button opens the menu; a click outside closes it
handleClick ==
  /\ ~localeEffectPending
  /\ ~anchorEl
  /\ anchorEl' = TRUE
  /\ localeEv' = [localeEv EXCEPT !.step = "menu"]
  /\ UNCHANGED <<locale, preferred, browserLanguage, localeEffectPending>>

handleClose ==
  /\ anchorEl
  /\ anchorEl' = FALSE
  /\ localeEv' = [localeEv EXCEPT !.step = "menu closed"]
  /\ UNCHANGED <<locale, preferred, browserLanguage, localeEffectPending>>

\* handleLanguageSelect: onLocaleChange(locale), which is App's
\* handleLocaleChange (setLocale, setItem), then handleClose and setItem again
handleLanguageSelect(l) ==
  /\ anchorEl
  /\ anchorEl' = FALSE
  /\ locale' = l
  /\ preferred' = l
  /\ localeEv' = [step |-> "select", selected |-> l]
  /\ UNCHANGED <<browserLanguage, localeEffectPending>>

\* the page is loaded again: App starts with 'en' and its effect due;
\* localStorage outlives the page
ReloadPage ==
  /\ locale' = "en"
  /\ anchorEl' = FALSE
  /\ localeEffectPending' = TRUE
  /\ localeEv' = [localeEv EXCEPT !.step = "load"]
  /\ UNCHANGED <<preferred, browserLanguage>>

LocaleNext ==
  \/ LocaleEffect
  \/ handleClick
  \/ handleClose
  \/ \E l \in locales : handleLanguageSelect(l)
  \/ ReloadPage

(***************************************************************************)
(* The specifications                                                      *)
(***************************************************************************)
vars == <<linkVars, toastVars, authVars, qrVars, dashVars, localeVars, serverVars, pageVars, chipVars>>
\* in the specification of one component the others stay as they start, the
\* gate on one page without a session, the generator on one link
AuthStart ==
  /\ isAuthenticated = FALSE /\ authLoading = FALSE /\ location = "/dashboard"
  /\ AuthInit
QrStart ==
  /\ withLogo = FALSE /\ qrSubtitle = "" /\ fullUrl = "https://sho.rt/s/aaa"
  /\ QrInit
ServerStart == ServerInit
PageStart == PageInit
ChipStart ==
  /\ chipLink = [enabled |-> TRUE, startDateTime |-> NullDate, endDateTime |-> NullDate]
  /\ chipNow = 0
  /\ ChipInit
LocaleStart ==
  /\ preferred = NoStored /\ browserLanguage = <<"en", "US">>
  /\ LocaleInit
Init == LinkInit /\ ToastInit /\ AuthStart /\ QrStart /\ DashInit /\ LocaleStart /\ ServerStart /\ PageStart /\ ChipStart
Spec == Init /\ [][LinkNext /\ UNCHANGED <<toastVars, authVars, qrVars, dashVars, localeVars, serverVars, pageVars, chipVars>>]_vars
FailSpec == Init /\ [][FailNext /\ UNCHANGED <<toastVars, authVars, qrVars, dashVars, localeVars, serverVars, pageVars, chipVars>>]_vars
RecordSpec == Init /\ [][RecordNext /\ UNCHANGED <<toastVars, authVars, qrVars, dashVars, localeVars, serverVars, pageVars, chipVars>>]_vars
ToastSpec == Init /\ [][ToastNext /\ UNCHANGED <<linkVars, authVars, qrVars, dashVars, localeVars, serverVars, pageVars, chipVars>>]_vars
\* the event loop runs the callback of a pending timer once its delay is over
ToastLiveSpec ==
  /\ Init
  /\ [][ToastNext /\ UNCHANGED <<linkVars, authVars, qrVars, dashVars, localeVars, serverVars, pageVars, chipVars>>]_vars
  /\ WF_vars((\E t \in timers : TimerFires(t))
               /\ UNCHANGED <<linkVars, authVars, qrVars, dashVars, localeVars, serverVars, pageVars, chipVars>>)
\* the gate starts with the auth store in any state, the generator with any link
AuthSpecInit == LinkInit /\ ToastInit /\ AuthInit /\ QrStart /\ DashInit /\ LocaleStart /\ ServerStart /\ PageStart /\ ChipStart
QrSpecInit == LinkInit /\ ToastInit /\ AuthStart /\ QrInit /\ DashInit /\ LocaleStart /\ ServerStart /\ PageStart /\ ChipStart
AuthSpec ==
  /\ AuthSpecInit
  /\ [][AuthNext /\ UNCHANGED <<linkVars, toastVars, qrVars, dashVars, localeVars, serverVars, pageVars, chipVars>>]_vars
QrSpec ==
  /\ QrSpecInit
  /\ [][QrNext /\ UNCHANGED <<linkVars, authVars, dashVars, localeVars, serverVars, pageVars, chipVars>>]_vars
CopySpec ==
  /\ QrSpecInit
  /\ [][CopyNext /\ UNCHANGED <<linkVars, authVars, dashVars, localeVars, serverVars, pageVars, chipVars>>]_vars
\* the dashboard starts mounted: its effect has called getUserLinks()
DashMounted ==
  /\ links = <<>>
  /\ currentLink = NullLink
  /\ isLoading = TRUE
  /\ error = NoError
  /\ totalCount = 0
  /\ pagination = InitialPagination
  /\ storage = Partialize(LinkState)
  /\ reqs = <<[op |-> "getUserLinks", queryParams |-> InitialPagination,
               overtaken |-> FALSE]>>
  /\ ev = Event("start", [op |-> "getUserLinks"], NullLink, NoMessage)
DashSpecInit == DashMounted /\ ToastInit /\ AuthStart /\ QrStart /\ DashInit /\ LocaleStart /\ ServerStart /\ PageStart /\ ChipStart
DashSpec ==
  /\ DashSpecInit
  /\ [][DashNext /\ UNCHANGED <<authVars, qrVars, localeVars, serverVars, pageVars, chipVars>>]_vars
\* the page starts loaded with any stored preference and browser language
RaceSpec == Init /\ [][RaceNext /\ UNCHANGED <<toastVars, authVars, qrVars, dashVars, localeVars, pageVars, chipVars>>]_vars
PageSpec == Init /\ [][PageNext /\ UNCHANGED <<toastVars, authVars, qrVars, dashVars, localeVars, serverVars, chipVars>>]_vars
\* a row is rendered for any link at any time
ChipSpecInit == LinkInit /\ ToastInit /\ AuthStart /\ QrStart /\ DashInit /\ LocaleStart /\ ServerStart /\ PageStart /\ ChipInit
ChipSpec ==
  /\ ChipSpecInit
  /\ [][ChipNext /\ UNCHANGED <<linkVars, toastVars, authVars, qrVars, dashVars, localeVars, serverVars, pageVars>>]_vars
LocaleSpecInit == LinkInit /\ ToastInit /\ AuthStart /\ QrStart /\ DashInit /\ LocaleInit /\ ServerStart /\ PageStart /\ ChipStart
LocaleSpec ==
  /\ LocaleSpecInit
  /\ [][LocaleNext /\ UNCHANGED <<linkVars, toastVars, authVars, qrVars, dashVars, serverVars, pageVars, chipVars>>]_vars

(***************************************************************************)
(* Link store: properties                                                  *)
(***************************************************************************)

\* C1: when the HTTP call of an operation fails, the step that applies the
\* failure leaves links, currentLink, totalCount and pagination as they were
\* and sets isLoading to false; error is the one data field it writes.
C1_FailureKeepsData ==
  [][ev'.phase = "fail" =>
       /\ links' = links
       /\ currentLink' = currentLink
       /\ totalCount' = totalCount
       /\ pagination' = pagination
       /\ isLoading' = FALSE
       /\ error' # NoError]_vars

\* a failed deleteLink, applied to a store that holds a list, a current link
\* and a pagination other than the initial one
C1_Witness ==
  /\ ev.phase = "fail"
  /\ ev.req.op = "deleteLink"
  /\ links # <<>>
  /\ currentLink # NullLink
  /\ pagination # InitialPagination
  /\ error = Fallback("deleteLink")

\* C2: no request is cancelled.  The answer to a list request is applied when
\* it arrives, also when a list request started after it was answered first:
\* right after it, links is the list it carried and pagination the query
\* parameters its request was sent with (the last answer to arrive wins).
C2_LastResolvedWins ==
  (ev.phase = "ok" /\ ev.req.op = "getUserLinks") =>
     /\ links = ev.data
     /\ pagination = ev.req.queryParams

\* two list requests with different parameters were in flight, the second was
\* answered first, and the answer to the first has now been applied
C2_Witness ==
  /\ ev.phase = "ok"
  /\ ev.req.op = "getUserLinks"
  /\ ev.req.overtaken
  /\ reqs = <<>>
  /\ links # <<>>
  /\ pagination = [max |-> 10, offset |-> 0]

\* C6 as stated: of the store only pagination.max is written to storage, and a
\* page loaded again restores at most the page size.
C6_OnlyPageSizePersisted ==
  /\ ev.phase # "init" => DOMAIN storage.pagination \subseteq {"max"}
  /\ ev.phase = "reload" =>
       [k \in DOMAIN pagination \ {"max"} |-> pagination[k]]
         = [k \in DOMAIN InitialPagination \ {"max"} |-> InitialPagination[k]]

\* C6 as amended: what is written to storage is the pagination object, whole
\* (max, offset and the sort and order it carries), and nothing else of the
\* store; a page loaded again starts from the initial state with the stored
\* pagination object.
C6_PaginationPersisted ==
  /\ storage = [pagination |-> pagination]
  /\ ev.phase = "reload" =>
       /\ links = <<>>
       /\ currentLink = NullLink
       /\ isLoading = FALSE
       /\ error = NoError
       /\ totalCount = 0

\* the page was loaded again and the offset of the earlier page came back
C6_Witness ==
  /\ ev.phase = "reload"
  /\ pagination = [max |-> 10, offset |-> 10]
  /\ storage.pagination.offset = 10

\* C9: the step that applies a successful updateLink(id) puts the returned
\* record in the place of every entry of links with that id, keeps every other
\* entry, the length and the order, and replaces currentLink by the returned
\* record exactly when currentLink has that id.
C9_UpdateReplacesWholesale ==
  [][(ev'.phase = "ok" /\ ev'.req.op = "updateLink") =>
       /\ Len(links') = Len(links)
       /\ \A k \in 1..Len(links) :
            links'[k] = IF links[k].id = ev'.req.id THEN ev'.rec ELSE links[k]
       /\ currentLink' = IF currentLink.id = ev'.req.id THEN ev'.rec ELSE currentLink]_vars

\* an update was applied to a list that holds the link twice and to a current
\* link of the same id
C9_Witness ==
  /\ ev.phase = "ok"
  /\ ev.req.op = "updateLink"
  /\ ev.rec.ver = 1
  /\ links = <<ev.rec, ev.rec>>
  /\ currentLink = ev.rec

\* C10: the step that applies a successful deleteLink(id) leaves in links the
\* entries of other ids, all of them and in their order, and none of that id;
\* currentLink becomes null exactly when it has that id.
C10_DeleteRemoves ==
  [][(ev'.phase = "ok" /\ ev'.req.op = "deleteLink") =>
       /\ links' = SelectSeq(links, LAMBDA link : link.id # ev'.req.id)
       /\ \A k \in 1..Len(links') : links'[k].id # ev'.req.id
       /\ currentLink' = IF currentLink.id = ev'.req.id THEN NullLink ELSE currentLink]_vars

\* a delete was applied, another link is still listed and the current link,
\* which is of another id, was kept
C10_Witness ==
  /\ ev.phase = "ok"
  /\ ev.req.op = "deleteLink"
  /\ Len(links) = 1
  /\ links[1].id # ev.req.id
  /\ currentLink = links[1]

\* C12: when the HTTP call of an operation fails, error becomes the message
\* the server's response carries if it carries one (an empty text counts as
\* none) and the operation's fallback text otherwise, never null, and the
\* operation's promise rejects with the error that was caught.
C12_ErrorSurfaced ==
  [][ev'.phase = "fail" =>
       /\ error' = IF ev'.msg \in {NoMessage, ""}
                   THEN Fallback(ev'.req.op)
                   ELSE ev'.msg
       /\ error' # NoError
       /\ error' # ""
       /\ ev'.thrown = ev'.msg]_vars

\* updateLink failed with a response that carries an empty message: error is
\* the fallback of updateLink, and the caller got the error
C12_Witness ==
  /\ ev.phase = "fail"
  /\ ev.req.op = "updateLink"
  /\ ev.msg = ""
  /\ ev.thrown = ""
  /\ error = "Failed to update link"
  /\ ~isLoading

\* C19: every record a step puts into links was in links before the step or
\* came with the response the step handles, and currentLink after a step is
\* what it was, null, the record of the response or the record handed to
\* setCurrentLink; no step stores a record it built from those.
C19_OnlyServerRecords ==
  [][LET received == {ev'.rec} \cup {ev'.data[j] : j \in 1..Len(ev'.data)}
     IN /\ \A k \in 1..Len(links') :
             /\ links'[k] # NullLink
             /\ \/ \E j \in 1..Len(links) : links'[k] = links[j]
                \/ links'[k] \in received
        /\ currentLink' \in {currentLink, NullLink, ev'.rec}]_linkVars

\* the list held both links as first sent, the first one also as currentLink;
\* the answer to disableLinkByShortCode carried the second version of the
\* first link: the list holds that record in its place, the other link and
\* currentLink are as they were
C19_Witness ==
  /\ ev.phase = "ok"
  /\ ev.req.op = "disableLinkByShortCode"
  /\ ev.rec = [id |-> 1, shortCode |-> ShortCodeOf(1), ver |-> 1]
  /\ links = <<ev.rec, [id |-> 2, shortCode |-> ShortCodeOf(2), ver |-> 0]>>
  /\ currentLink = [id |-> 1, shortCode |-> ShortCodeOf(1), ver |-> 0]

(***************************************************************************)
(* Toast store: properties                                                 *)
(***************************************************************************)

\* C3: at most one auto-dismiss timer is pending, it is the one timeoutId
\* records, and it was started for the message on display; so the timer that
\* closes a toast is never one started for an earlier message.
C3_OneTimer ==
  /\ Cardinality(timers) <= 1
  /\ \A t \in timers : t.id = timeoutId /\ t.message = message /\ t.duration = duration
  /\ closedBy.current

\* a second toast replaced the first while the first's timer was pending, and
\* the one timer left is the second's
C3_Witness ==
  /\ timerSeq = 2
  /\ open
  /\ timers = {[id |-> 2, message |-> "link not saved", duration |-> 3000]}
  /\ timeoutId = 2
  /\ closedBy = NoTimer

\* C16: a showToast call leaves the store open with the message, severity,
\* duration and position of that call and with one pending timer, started by
\* that call for its duration; a step that is no showToast call changes none
\* of the four, so a message that was replaced is not shown again.
C16_LatestCallShown ==
  [][/\ timerSeq' # timerSeq =>
          /\ open'
          /\ Call(message', severity', duration', position') = lastCall'
          /\ timeoutId' = timerSeq'
          /\ timers' = {[id |-> timerSeq', message |-> lastCall'.message,
                         duration |-> lastCall'.duration]}
     /\ timerSeq' = timerSeq =>
          /\ Call(message', severity', duration', position') =
               Call(message, severity, duration, position)
          /\ lastCall' = lastCall]_vars

\* a third toast, an error shown for 3000 ms at the top, replaced the second
\* while that was open: the store shows the third and the one timer is its own
C16_Witness ==
  /\ timerSeq = 3
  /\ open
  /\ lastCall = Call("link not saved", "error", 3000, "top-center")
  /\ message = "link not saved"
  /\ severity = "error"
  /\ duration = 3000
  /\ position = "top-center"
  /\ timers = {[id |-> 3, message |-> "link not saved", duration |-> 3000]}
  /\ closedBy = NoTimer

\* C17: whenever a toast is open the timer timeoutId names is pending, and a
\* toast that is open closes, with timeoutId null, unless another showToast
\* replaces its timer first.
C17_EventuallyClosed ==
  /\ [](open => \E t \in timers : t.id = timeoutId)
  /\ \A k \in 1..MaxToasts :
       (open /\ timeoutId = k) ~>
          \/ ~open /\ timeoutId = NoTimeout
          \/ timeoutId \notin {k, NoTimeout}

\* the first toast was closed by its own timer
C17_Witness ==
  /\ timerSeq = 1
  /\ ~open
  /\ timeoutId = NoTimeout
  /\ timers = {}
  /\ closedBy.id = 1
  /\ closedBy.current

\* C18: a step that closes the toast, hideToast or the timer's callback, sets
\* open to false and timeoutId to null, leaves no timer pending and leaves
\* message, severity, duration and position as they were.
C18_HideKeepsContent ==
  [][timerSeq' = timerSeq =>
       /\ open' = FALSE
       /\ timeoutId' = NoTimeout
       /\ timers' = {}
       /\ message' = message
       /\ severity' = severity
       /\ duration' = duration
       /\ position' = position]_toastVars

\* hideToast closed the first toast while its timer was pending: the timer is
\* gone, the content is still that of the toast
C18_Witness ==
  /\ timerSeq = 1
  /\ ~open
  /\ timeoutId = NoTimeout
  /\ timers = {}
  /\ closedBy = NoTimer
  /\ message = "link saved"
  /\ severity = "warning"
  /\ duration = 3000
  /\ position = "top-center"

(***************************************************************************)
(* Auth gate: properties                                                   *)
(***************************************************************************)

\* C7: ProtectedRoute does not render the Outlet before the getProfile call it
\* starts on mount has resolved.
C7_NoOutletBeforeSessionCheck == rendered = "outlet" => checked

\* C8: mounted without a session and not loading, ProtectedRoute renders no
\* child route and the one thing left for it to do is the redirect; when the
\* redirect is made, for that reason or because getProfile returned no user,
\* it is navigate('/login') with replace and state.from the location the guard
\* was deciding about, and the login page replaces the guard and its children.
C8_RedirectsToLogin ==
  /\ (route = "guard" /\ ~isAuthenticated) => rendered # "outlet"
  /\ (route = "guard" /\ ~isAuthenticated /\ ~authLoading) => effectPending
  /\ authEv \in {"effect:redirect", "profile:none"} =>
       /\ route = "login"
       /\ rendered = "none"
       /\ nav.to = LoginPath
       /\ nav.replace
       /\ nav.from = nav.guarded
       /\ nav.from \in ProtectedPaths
  /\ authEv = "effect:redirect" => nav.from = location

\* getProfile returned no user for a guard mounted on /links/1/stats, and the login
\* page is shown with state.from = /links/1/stats
C8_Witness ==
  /\ authEv = "profile:none"
  /\ route = "login"
  /\ rendered = "none"
  /\ nav = [to |-> "/login", from |-> "/links/1/stats", replace |-> TRUE, guarded |-> "/links/1/stats"]

(***************************************************************************)
(* QR generator: properties                                                *)
(***************************************************************************)

\* C4: a change of the size, the error-correction level, the logo flag, the
\* caption or the target URL makes a generation due, so once no generation is
\* due (and the last one did not fail) the canvas encodes the current target
\* URL at the current size and level.
C4_CanvasFollowsInputs ==
  (~qrEffectPending /\ ~genFailed) =>
     /\ canvas.url = fullUrl
     /\ canvas.size = size
     /\ canvas.level = errorCorrectionLevel

\* C5: when copying the image fails (toBlob hands over no blob, or the
\* clipboard write rejects), handleCopy ends having written the URL and shown
\* the URL-copied toast, or, if that write failed too, the copy-error toast.
C5_CopyFallsBackToUrl ==
  (copy.phase = "done" /\ copy.imageFailed) =>
     \/ copy.toast = "qr.copyUrl.success" /\ message = "qr.copyUrl.success"
     \/ copy.fallbackFailed /\ copy.toast = "qr.copy.error"

\* C20: the step in which a logo load fails draws nothing and shows no
\* toast: the canvas, with the QR code generated for a link that asks for a
\* logo, is as it was, the toast store is as it was, and the Download and
\* Copy buttons are enabled after it if they were before it.
C20_LogoFailureKeepsQr ==
  [][(logoLoads' # logoLoads /\ logoFailed') =>
       /\ canvas' = canvas
       /\ UNCHANGED toastVars
       /\ ButtonsEnabled => ButtonsEnabled']_vars

\* the code generated for a link with withLogo, its logo failed to load: the
\* canvas shows the code without a logo, no toast was shown, the buttons are
\* enabled
C20_Witness ==
  /\ withLogo
  /\ logoFailed
  /\ logoLoads = {}
  /\ canvas.url = fullUrl
  /\ canvas.size = size
  /\ canvas.logo = 0
  /\ timerSeq = 0
  /\ ~open
  /\ ButtonsEnabled

(***************************************************************************)
(* Dashboard and forms: properties                                         *)
(***************************************************************************)

C14_OneCallOneToast ==
  [][dashEv'.form \in {"create", "edit"} =>
       /\ dashEv'.step \in {"threw", "sent"} =>
            /\ Len(reqs') = Len(reqs) + 1
            /\ reqs'[Len(reqs')].op =
                 (IF dashEv'.form = "create" THEN "createLink" ELSE "updateLink")
            /\ UNCHANGED toastVars
       /\ dashEv'.step \in {"resolved", "rejected"} =>
            /\ timerSeq' = timerSeq + 1
            /\ open'
            /\ severity' = (IF dashEv'.step = "resolved" THEN "success" ELSE "error")
       /\ dashEv'.step \notin {"threw", "sent", "resolved", "rejected"} =>
            UNCHANGED toastVars]_vars

\* C15: when a create, an edit or a delete request fails, the dialogs are as
\* they were before (the create form open with its values, the edit dialog
\* open, the delete confirmation open on the same link) and isLoading is
\* false, so the action that failed is enabled again.
C15_FailureKeepsUi ==
  [][dashEv'.step = "rejected" =>
       /\ showCreateForm' = showCreateForm
       /\ formData' = formData
       /\ editingLink' = editingLink
       /\ deleteConfirmLink' = deleteConfirmLink
       /\ isLoading' = FALSE
       /\ (dashEv'.form = "create" /\ showCreateForm) => CanSubmitCreate'
       /\ (dashEv'.form = "edit" /\ editingLink # NullLink) => CanSubmitEdit'
       /\ (dashEv'.form = "delete" /\ deleteConfirmLink # NullLink) =>
            deleteConfirmLink' # NullLink]_vars

\* createLink was rejected without a message: the create dialog is open with
\* the values that were submitted, and the store is not loading
C15_Witness ==
  /\ dashEv = DashEvent("rejected", "create")
  /\ showCreateForm
  /\ formData = FormValues("https://example.org/a", DateAt(1), DateAt(2))
  /\ ~isLoading
  /\ error = "Failed to create link"
  /\ severity = "error"

\* C21: a deleteLink request is sent only while the confirmation dialog is
\* open, and for the link it shows; closing the dialog without confirming
\* sends nothing and leaves links as they are; when a delete succeeds the
\* dialog is closed and the list is requested again.
C21_DeleteOnlyConfirmed ==
  [][/\ (Len(reqs') > Len(reqs) /\ reqs'[Len(reqs')].op = "deleteLink") =>
          /\ deleteConfirmLink # NullLink
          /\ reqs'[Len(reqs')].id = deleteConfirmLink.id
     /\ (deleteConfirmLink # NullLink /\ deleteConfirmLink' = NullLink
           /\ dashEv'.step = "close") =>
          /\ reqs' = reqs
          /\ links' = links
     /\ (reqs' # reqs /\ ev'.phase = "ok" /\ ev'.req.op = "deleteLink") =>
          /\ deleteConfirmLink' = NullLink
          /\ isLoading'
          /\ reqs'[Len(reqs')].op = "getUserLinks"
          /\ \A k \in 1..Len(links') : links'[k].id # ev'.req.id]_vars

\* the first link was deleted after the confirmation: the dialog is closed,
\* the list no longer holds the link and the refresh is awaited
C21_Witness ==
  /\ dashEv = DashEvent("resolved", "delete")
  /\ ev.phase = "ok"
  /\ ev.req.op = "deleteLink"
  /\ ev.req.id = 1
  /\ deleteConfirmLink = NullLink
  /\ links = <<[id |-> 2, shortCode |-> ShortCodeOf(2), ver |-> 0]>>
  /\ reqs = <<[op |-> "getUserLinks", queryParams |-> pagination, overtaken |-> FALSE]>>
  /\ isLoading

\* C22: selecting a locale makes it the current one and stores it; when the
\* page's effect has run detectLocale, the current locale is the stored one if
\* that is 'en' or 'th', whatever the browser's language, so it is the locale
\* selected last, before or after a reload; in every case the current locale
\* is 'en' or 'th', and it is 'en' when neither the stored value nor the
\* browser's language is supported.
C22_LocalePersists ==
  /\ locale \in locales
  /\ localeEv.step = "select" =>
       (locale = localeEv.selected /\ preferred = locale /\ ~anchorEl)
  /\ localeEv.step = "detect" =>
       /\ preferred \in locales => locale = preferred
       /\ localeEv.selected # NoSelection => locale = localeEv.selected
       /\ (preferred \notin locales /\ SplitFirst(browserLanguage) \notin locales)
            => locale = "en"

\* Thai was selected in a browser set to English, the page was loaded again
\* and its effect has run: the page is in Thai
C22_Witness ==
  /\ localeEv = [step |-> "detect", selected |-> "th"]
  /\ browserLanguage = <<"en", "US">>
  /\ preferred = "th"
  /\ locale = "th"
  /\ ~localeEffectPending

\* C23: isLoading is true exactly when at least one operation of the link
\* store still awaits its HTTP response.
C23_LoadingWhileAwaited == isLoading <=> reqs # <<>>

\* C24: when the server gives every link its own id and lists no link twice,
\* the links list holds no id twice, in whatever order the responses of the
\* createLink and getUserLinks calls in flight arrive.
C24_NoDuplicateIds == DistinctIds(links)

\* C25: the store's pagination always carries its sort and order fields, as
\* they were at the start: page changes and list requests alter max and
\* offset alone, so a list request without parameters is sent with them.
C25_SortOrderKept ==
  /\ {"sort", "order"} \subseteq DOMAIN pagination
  /\ pagination.sort = InitialPagination.sort
  /\ pagination.order = InitialPagination.order

\* C26: right after a successful updateLink, transferOwnership or
\* disableLinkByShortCode, every cached copy of the link is the record the
\* server returned: its entries in links, and currentLink when it is that link.
C26_CachedCopiesAgree ==
  [][(/\ reqs' # reqs
      /\ ev'.phase = "ok"
      /\ ev'.req.op \in {"updateLink", "transferOwnership", "disableLinkByShortCode"}) =>
       /\ \A k \in 1..Len(links') : links'[k].id = ev'.rec.id => links'[k] = ev'.rec
       /\ currentLink'.id = ev'.rec.id => currentLink' = ev'.rec]_vars

\* C27: whenever the Download and Copy buttons are enabled (no generation
\* running or due, the last one did not fail and no logo failed to load), the
\* canvas shows the code for the current size and level, with the logo drawn
\* for the current size when the link asks for one and with no logo when it
\* does not, and with the caption when the link has one.
C27_CompleteWhenEnabled ==
  (ButtonsEnabled /\ ~genFailed /\ ~logoFailed) =>
     /\ canvas.size = size
     /\ canvas.level = errorCorrectionLevel
     /\ canvas.logo = IF withLogo THEN size ELSE 0
     /\ qrSubtitle # "" => canvas.caption = qrSubtitle

\* C28: when the link has a caption, the generated canvas shows it once the
\* generation and the logo load it started are over, with or without a logo
\* and whether the logo loaded or failed to.
C28_CaptionDrawn ==
  (~qrEffectPending /\ ~genFailed /\ logoLoads = {} /\ qrSubtitle # "") =>
     canvas.caption = qrSubtitle

\* C29: every list request the dashboard sends asks for the page its grid
\* shows: max is the grid's page size and offset is page times page size, on
\* a page change, on a refresh and on the request sent when it mounts.
C29_FetchMatchesGrid ==
  [][(Len(reqs') > Len(reqs) /\ reqs'[Len(reqs')].op = "getUserLinks") =>
       /\ reqs'[Len(reqs')].queryParams.max = paginationModel'.pageSize
       /\ reqs'[Len(reqs')].queryParams.offset =
            paginationModel'.page * paginationModel'.pageSize]_vars

\* C30: the chip of a rendered row is one of inactive, expired and active for
\* every link and time: inactive when the link is disabled, whatever its
\* dates; else inactive when its start is after now; else expired when its end
\* is before now; else active.  So it is active exactly when the link is
\* enabled, has no start after now and no end before now.
C30_StatusPrecedence ==
  chip # NoChip =>
    LET startsLater == chipLink.startDateTime.valid /\ chipNow < chipLink.startDateTime.t
        ended == chipLink.endDateTime.valid /\ chipNow > chipLink.endDateTime.t
    IN /\ chip.label \in {"link.status.inactive", "link.status.expired", "link.status.active"}
       /\ ~chipLink.enabled => chip.label = "link.status.inactive"
       /\ (chipLink.enabled /\ startsLater) => chip.label = "link.status.inactive"
       /\ (chipLink.enabled /\ ~startsLater /\ ended) => chip.label = "link.status.expired"
       /\ chip.label = "link.status.active" <=>
            (chipLink.enabled /\ ~startsLater /\ ~ended)

\* an enabled link whose start is still to come and whose end has passed is
\* shown inactive, not expired
C30_Witness ==
  /\ chipLink = [enabled |-> TRUE, startDateTime |-> DateAt(3), endDateTime |-> DateAt(1)]
  /\ chipNow = 2
  /\ chip = Chip("link.status.inactive", "warning")

====
